---- MODULE Spec2Model ----
\* Verification model of search_mailing_list.py (chriscool/getreleases):
\* the thread indexer (MailingListStore.analyze_threads), the resume
\* document (load_index / save_index), the terminal selector
\* (ThreadSelectorTUI) and the export loop (ThreadProcessor), together with
\* the main flow that chains them.
EXTENDS Integers, Sequences, FiniteSets, TLC

\* ------------------------------------------------------------------------
\* Bounds of the model
\* ------------------------------------------------------------------------
MaxRuns == 2
MaxDay == 2
NumEditions == 2
MaxEdits == 1

\* ------------------------------------------------------------------------
\* Generic helpers
\* ------------------------------------------------------------------------
None == -1

Range(s) == {s[i] : i \in 1..Len(s)}

IsPrefix(s, t) == Len(s) <= Len(t) /\ SubSeq(t, 1, Len(s)) = s

\* smallest index i >= from with Test(s[i]), 0 when there is none
FirstIdx(s, from, Test(_)) ==
    LET hits == {i \in from..Len(s) : Test(s[i])}
    IN  IF hits = {} THEN 0 ELSE CHOOSE i \in hits : \A j \in hits : i <= j

\* ------------------------------------------------------------------------
\* Characters and sanitize_filename
\* ------------------------------------------------------------------------
\* the characters of the model that the class \w matches
WordChars == {"a", "b", "k", "n", "o", "p", "q", "Q", "u", "w", "_"}
DashSpace == {"-", " "}
\* the backquote character, which delimits values in index.md
Backquote == "BQ"

\* re.sub(r'[^\w\s-]', '', name)
RECURSIVE DropNonWord(_)
DropNonWord(s) ==
    IF s = <<>> THEN <<>>
    ELSE IF Head(s) \in WordChars \cup DashSpace
         THEN <<Head(s)>> \o DropNonWord(Tail(s))
         ELSE DropNonWord(Tail(s))

\* re.sub(r'[-\s]+', '-', name)
RECURSIVE CollapseDashes(_)
CollapseDashes(s) ==
    IF s = <<>> THEN <<>>
    ELSE IF Head(s) \in DashSpace
         THEN IF Len(s) > 1 /\ s[2] \in DashSpace
              THEN CollapseDashes(Tail(s))
              ELSE <<"-">> \o CollapseDashes(Tail(s))
         ELSE <<Head(s)>> \o CollapseDashes(Tail(s))

\* name.strip('-')
RECURSIVE StripDashes(_)
StripDashes(s) ==
    IF s = <<>> THEN <<>>
    ELSE IF Head(s) = "-" THEN StripDashes(Tail(s))
    ELSE IF s[Len(s)] = "-" THEN StripDashes(SubSeq(s, 1, Len(s) - 1))
    ELSE s

MaxNameLen == 50

sanitize_filename(name) ==
    LET stripped == StripDashes(CollapseDashes(DropNonWord(name)))
    IN  SubSeq(stripped, 1, IF Len(stripped) < MaxNameLen THEN Len(stripped) ELSE MaxNameLen)

BlobPrefixLen == 8

\* blob[:8]
BlobPrefix(blob) ==
    SubSeq(blob, 1, IF Len(blob) < BlobPrefixLen THEN Len(blob) ELSE BlobPrefixLen)

\* f"{sanitize_filename(subject)}_{blob}.txt"
Filename(subject, blob8) == sanitize_filename(subject) \o <<"_">> \o blob8 \o <<".txt">>

\* ------------------------------------------------------------------------
\* The candidate threads of a run (records as analyze_threads emits them;
\* only the fields the selector result, the processor and the resume
\* document read)
\* ------------------------------------------------------------------------
Threads ==
    << [root_mid |-> <<"a">>, subject |-> <<"Q", "a", ":", " ", "n">>,
        blob |-> <<"0", "1", "2", "3", "4", "5", "6", "7", "8", "9">>],
       [root_mid |-> <<"b">>, subject |-> <<"[", "n", "]", " ", "-", " ", "p">>,
        blob |-> <<"f", "f">>],
       [root_mid |-> <<"a", Backquote, "b">>, subject |-> <<"a", "-", "q">>,
        blob |-> <<"e", "e", "e">>] >>

NumThreads == Len(Threads)

\* ------------------------------------------------------------------------
\* The resume document index.md as a sequence of lines
\* ------------------------------------------------------------------------
Line(k, n, t) == [k |-> k, n |-> n, t |-> t]

FmLine == Line("---", 0, <<>>)
EditionLine(e) == Line("edition", e, <<>>)
CreatedLine(d) == Line("created", d, <<>>)
BlankLine == Line("blank", 0, <<>>)
TitleLine(e) == Line("title", e, <<>>)
SectionLine == Line("section", 0, <<>>)
SubjectLine(s) == Line("subject", 0, s)
FileLine(f) == Line("file", 0, f)
MidLine(m) == Line("mid", 0, m)
NotesLine(txt) == Line("notes", 0, txt)

IsFm(l) == l.k = "---"
IsTitle(l) == l.k = "title"
IsBlank(l) == l.k = "blank"

NoFile == [exists |-> FALSE, lines |-> <<>>]

\* what the group ([^q]+) between two backquotes q captures from a written
\* message id: the characters up to its first backquote
MidCapture(m) ==
    LET tick == FirstIdx(m, 1, LAMBDA c : c = Backquote)
    IN  IF tick = 0 THEN m ELSE SubSeq(m, 1, tick - 1)

load_index(file) ==
    LET lines == file.lines
        \* re.search(r'^---\n(.*?)\n---', content, re.DOTALL)
        fmClose == IF Len(lines) >= 1 /\ IsFm(lines[1]) THEN FirstIdx(lines, 3, IsFm) ELSE 0
        fm == IF fmClose = 0 THEN <<>> ELSE SubSeq(lines, 2, fmClose - 1)
        ed == FirstIdx(fm, 1, LAMBDA l : l.k = "edition" /\ l.n >= 0)
        cr == FirstIdx(fm, 1, LAMBDA l : l.k = "created")
    IN  IF ~file.exists
        THEN [present |-> TRUE, edition |-> None, created |-> None, done_mids |-> {}]
        ELSE [present |-> TRUE,
              edition |-> IF ed = 0 THEN None ELSE fm[ed].n,
              created |-> IF cr = 0 THEN None ELSE fm[cr].n,
              done_mids |-> {MidCapture(lines[i].t) :
                               i \in {j \in 1..Len(lines) :
                                        lines[j].k = "mid" /\ MidCapture(lines[j].t) # <<>>}}]

\* the value of the parameter existing when the caller passes none
NoIndex == [present |-> FALSE, edition |-> None, created |-> None, done_mids |-> {}]

\* str.strip() of the kept body: leading and trailing blank lines go
RECURSIVE StripBlank(_)
StripBlank(ls) ==
    IF ls = <<>> THEN <<>>
    ELSE IF IsBlank(Head(ls)) THEN StripBlank(Tail(ls))
    ELSE IF IsBlank(ls[Len(ls)]) THEN StripBlank(SubSeq(ls, 1, Len(ls) - 1))
    ELSE ls

\* the four lines (after a blank one) that save_index writes for a thread
EntryLines(t) ==
    << BlankLine,
       SubjectLine(t.subject),
       FileLine(Filename(t.subject, BlobPrefix(t.blob))),
       MidLine(t.root_mid),
       NotesLine(<<>>) >>

RECURSIVE NewEntries(_)
NewEntries(ts) ==
    IF ts = <<>> THEN <<>> ELSE EntryLines(Head(ts)) \o NewEntries(Tail(ts))

\* the part of the existing file that save_index keeps
ExistingBody(file) ==
    LET lines == file.lines
        \* content.find('\n---\n', content.find('---\n'))
        first == FirstIdx(lines, 1, IsFm)
        fm_end == IF first = 0 THEN 0 ELSE FirstIdx(lines, first + 1, IsFm)
    IN  IF ~file.exists \/ fm_end = 0 THEN <<>>
        ELSE SelectSeq(SubSeq(lines, fm_end + 1, Len(lines)), LAMBDA l : ~IsTitle(l))

save_index(file, ed, ths, existing, now) ==
    LET created == IF existing.present /\ existing.created # None
                   THEN existing.created ELSE now
        already_done == IF existing.present THEN existing.done_mids ELSE {}
        new_threads == SelectSeq(ths, LAMBDA t : t.root_mid \notin already_done)
        kept == StripBlank(ExistingBody(file))
        body == IF kept = <<>>
                THEN <<SectionLine>> \o NewEntries(new_threads)
                ELSE kept \o NewEntries(new_threads)
    IN  [exists |-> TRUE,
         lines |-> <<FmLine, EditionLine(ed), CreatedLine(created), FmLine,
                     BlankLine, TitleLine(ed), BlankLine>> \o body \o <<BlankLine>>]

\* ------------------------------------------------------------------------
\* State
\* ------------------------------------------------------------------------
VARIABLES
    \* the main flow and ThreadProcessor
    files,              \* edition -> index.md of threads_<edition>
    today,              \* datetime.now() as a day number
    runs,               \* finished runs of main()
    pc,                 \* position of the running main()
    edition,            \* main: edition
    repo_path,          \* main: repo_path ("none" for None)
    selected_mids,      \* main: selected_mids, the result of tui.run()
    existing_index,     \* ThreadProcessor.existing_index
    idx,                \* number of iterations of the export loop done
    processed_threads,  \* process_selected_threads: processed_threads
    attempts,           \* history: ids given to fetch_lei_thread, in order
    outcomes,           \* history: TRUE where fetch and convert returned
    saveCalls,          \* history: the save_index calls of this call
    edits,              \* history: number of operator edits of index.md
    firstCreated,       \* history: edition -> created of its first write
    tui_done_mids,      \* main: tui.done_mids, the done ids the selector marks
    written             \* history: the thread files this call wrote, [mid, name]

procVars == <<files, today, runs, pc, edition, repo_path, selected_mids,
              existing_index, idx, processed_threads, attempts, outcomes,
              saveCalls, edits, firstCreated, tui_done_mids, written>>

VARIABLES
    \* ThreadSelectorTUI and its run loop
    threads,            \* self.threads
    selected,           \* self.selected
    cursor,             \* self.cursor
    offset,             \* self.offset
    search_term,        \* self.search_term
    search_matches,     \* self.search_matches
    current_match_idx,  \* self.current_match_idx
    searching,          \* self.searching
    show_help_overlay,  \* self.show_help_overlay
    show_preview,       \* self.show_preview
    done_mids,          \* self.done_mids
    rows,               \* h of stdscr.getmaxyx()
    tpc,                \* position of run: "start", "render", "help", "getch", "done"
    result              \* what run returns

tuiVars == <<threads, selected, cursor, offset, search_term, search_matches,
             current_match_idx, searching, show_help_overlay, show_preview,
             done_mids, rows, tpc, result>>

VARIABLES
    \* a second ThreadSelectorTUI and its run loop, fed the keys of the first
    threads2,           \* self.threads
    selected2,          \* self.selected
    cursor2,            \* self.cursor
    offset2,            \* self.offset
    search_term2,       \* self.search_term
    search_matches2,    \* self.search_matches
    current_match_idx2, \* self.current_match_idx
    searching2,         \* self.searching
    show_help_overlay2, \* self.show_help_overlay
    show_preview2,      \* self.show_preview
    done_mids2,         \* self.done_mids
    rows2,              \* h of stdscr.getmaxyx()
    tpc2,               \* position of run
    result2             \* what run returns

twinVars == <<threads2, selected2, cursor2, offset2, search_term2, search_matches2,
              current_match_idx2, searching2, show_help_overlay2, show_preview2,
              done_mids2, rows2, tpc2, result2>>

VARIABLES
    \* the preview pane of ThreadSelectorTUI
    cols,               \* w of stdscr.getmaxyx()
    tui_repo_path,      \* self.repo_path ("none" for None)
    preview_cache,      \* self._preview_cache: cache key -> body lines
    preview             \* render: how the last render got the body, and the body

previewVars == <<cols, tui_repo_path, preview_cache, preview>>

VARIABLES
    \* main, from its start to the selector and from the selector to its end
    mpc,                \* position of main
    cause,              \* history: what the environment check and the query met
    exit_status         \* the exit status of the program, None while it runs

mainVars == <<mpc, cause, exit_status>>

VARIABLES
    \* main, the edition of the run
    now_date,           \* datetime.now(): [year, month, day]
    args_edition,       \* args.edition, None without --edition
    main_edition,       \* main: edition, None before it is set
    epc                 \* "input" before the assignment, then "done"

edVars == <<now_date, args_edition, main_edition, epc>>

VARIABLE
    \* the operator at the keyboard
    leaving             \* TRUE once they press only the keys that end the session

VARIABLES
    \* MailingListStore.analyze_threads
    messages,           \* the argument messages
    store,              \* the thresholds of the MailingListStore
    now,                \* datetime.now(), in half days
    ipc,                \* "input" while the argument is built, then "done"
    valid_threads,      \* what analyze_threads returned
    summarizable_threads \* main: summarizable_threads after its sort

idxVars == <<messages, store, now, ipc, valid_threads, summarizable_threads>>

\* what the main flow leaves alone
notProc == <<tuiVars, idxVars, twinVars, leaving, previewVars, mainVars, edVars>>

vars == <<procVars, tuiVars, idxVars, twinVars, leaving, previewVars, mainVars, edVars>>

Editions == 1..NumEditions

\* ------------------------------------------------------------------------
\* ThreadSelectorTUI.run as main sees it: the ids of a choice of rows, in
\* list order
\* ------------------------------------------------------------------------
RECURSIVE SelectedMids(_, _, _)
SelectedMids(ths, bits, i) ==
    IF i > Len(ths) THEN <<>>
    ELSE (IF bits[i] THEN <<ths[i].root_mid>> ELSE <<>>)
         \o SelectedMids(ths, bits, i + 1)

\* ------------------------------------------------------------------------
\* main
\* ------------------------------------------------------------------------
ProcInit ==
    /\ files = [e \in Editions |-> NoFile]
    /\ today = 1
    /\ runs = 0
    /\ pc = "idle"
    /\ edition = 1
    /\ repo_path = "none"
    /\ selected_mids = <<>>
    /\ existing_index = NoIndex
    /\ idx = 0
    /\ processed_threads = <<>>
    /\ attempts = <<>>
    /\ outcomes = <<>>
    /\ saveCalls = <<>>
    /\ edits = 0
    /\ firstCreated = [e \in Editions |-> None]
    /\ tui_done_mids = {}
    /\ written = <<>>

\* main up to and including ThreadProcessor(repo_path, threads_dir, edition)
MainSelect(e, rp, sel) ==
    /\ UNCHANGED notProc
    /\ pc = "idle"
    /\ runs < MaxRuns
    /\ LET chosen == SelectedMids(Threads, sel, 1)
       IN  IF chosen = <<>>
           THEN /\ runs' = runs + 1
                /\ UNCHANGED <<pc, edition, repo_path, selected_mids>>
           ELSE /\ pc' = "process"
                /\ edition' = e
                /\ repo_path' = rp
                /\ selected_mids' = chosen
                /\ UNCHANGED runs
    \* ThreadSelectorTUI(summarizable_threads, repo_path): done_mids is None
    /\ tui_done_mids' = {}
    /\ UNCHANGED <<existing_index, idx, processed_threads, attempts, outcomes, saveCalls,
                   written>>
    /\ UNCHANGED <<files, today, edits, firstCreated>>

\* process_selected_threads up to the loop
ProcessEnter ==
    /\ UNCHANGED notProc
    /\ pc = "process"
    /\ pc' = IF repo_path = "none" THEN "returned" ELSE "loop"
    /\ UNCHANGED <<files, today, runs, edition, repo_path, selected_mids,
                   existing_index, idx, processed_threads, attempts, outcomes,
                   saveCalls, edits, firstCreated, tui_done_mids, written>>

\* thread_by_mid.get(mid): index of the thread, 0 for None
ThreadByMid(ths, mid) ==
    LET hits == {i \in 1..Len(ths) : ths[i].root_mid = mid}
    IN  IF hits = {} THEN 0 ELSE CHOOSE i \in hits : \A j \in hits : j <= i

\* the subject of a message id that is not in the thread list
Unknown == <<"u", "n", "k", "n", "o", "w", "n">>

\* the name of the output file, with the whole locator in it
OutputName_WholeBlob(ths, mid) ==
    LET t == ThreadByMid(ths, mid)
        subject == IF t # 0 THEN ths[t].subject ELSE Unknown
        blob == IF t # 0 THEN ths[t].blob ELSE mid
    IN  Filename(subject, blob)

\* process_selected_threads: the name of the output file of a message id
OutputName(ths, mid) ==
    LET t == ThreadByMid(ths, mid)
        subject == IF t # 0 THEN ths[t].subject ELSE Unknown
        blob == IF t # 0 THEN BlobPrefix(ths[t].blob) ELSE BlobPrefix(mid)
    IN  Filename(subject, blob)

\* ExportOne with a failure that ends the loop (the exception is not caught
\* inside the loop body)
ExportOne_AbortsOnFailure(ok) ==
    /\ UNCHANGED notProc
    /\ pc = "loop"
    /\ idx < Len(selected_mids)
    /\ LET mid == selected_mids[idx + 1]
           t == ThreadByMid(Threads, mid)
       IN  /\ attempts' = Append(attempts, mid)
           /\ outcomes' = Append(outcomes, ok)
           /\ processed_threads' = IF ok /\ t # 0
                                   THEN Append(processed_threads, Threads[t])
                                   ELSE processed_threads
           /\ written' = IF ok
                         THEN Append(written, [mid |-> mid, name |-> OutputName(Threads, mid)])
                         ELSE written
    /\ idx' = idx + 1
    /\ pc' = IF ok THEN pc ELSE "returned"
    /\ UNCHANGED <<files, today, runs, edition, repo_path, selected_mids,
                   existing_index, saveCalls, edits, firstCreated, tui_done_mids>>

\* ExportOne with save_index called inside the loop, after each export
ExportOne_SavesInLoop(ok) ==
    /\ UNCHANGED notProc
    /\ pc = "loop"
    /\ idx < Len(selected_mids)
    /\ LET mid == selected_mids[idx + 1]
           t == ThreadByMid(Threads, mid)
       IN  /\ attempts' = Append(attempts, mid)
           /\ outcomes' = Append(outcomes, ok)
           /\ processed_threads' = IF ok /\ t # 0
                                   THEN Append(processed_threads, Threads[t])
                                   ELSE processed_threads
           /\ written' = IF ok
                         THEN Append(written, [mid |-> mid, name |-> OutputName(Threads, mid)])
                         ELSE written
    /\ idx' = idx + 1
    /\ IF ok
       THEN /\ files' = [files EXCEPT ![edition] =
                            save_index(files[edition], edition, processed_threads',
                                       existing_index, today)]
            /\ saveCalls' = Append(saveCalls, [at |-> idx', threads |-> processed_threads'])
       ELSE UNCHANGED <<files, saveCalls>>
    /\ UNCHANGED <<today, runs, pc, edition, repo_path, selected_mids,
                   existing_index, edits, firstCreated, tui_done_mids>>

\* one iteration of the export loop; ok is whether fetch_lei_thread and
\* convert_content_to_text returned without raising
ExportOne(ok) ==
    /\ UNCHANGED notProc
    /\ pc = "loop"
    /\ idx < Len(selected_mids)
    /\ LET mid == selected_mids[idx + 1]
           t == ThreadByMid(Threads, mid)
       IN  /\ attempts' = Append(attempts, mid)
           /\ outcomes' = Append(outcomes, ok)
           /\ processed_threads' = IF ok /\ t # 0
                                   THEN Append(processed_threads, Threads[t])
                                   ELSE processed_threads
           /\ written' = IF ok
                         THEN Append(written, [mid |-> mid, name |-> OutputName(Threads, mid)])
                         ELSE written
    /\ idx' = idx + 1
    /\ UNCHANGED <<files, today, runs, pc, edition, repo_path, selected_mids,
                   existing_index, saveCalls, edits, firstCreated, tui_done_mids>>

\* the end of process_selected_threads
ProcessFinish ==
    /\ UNCHANGED notProc
    /\ pc = "loop"
    /\ idx = Len(selected_mids)
    /\ IF processed_threads # <<>>
       THEN /\ files' = [files EXCEPT ![edition] =
                            save_index(files[edition], edition, processed_threads,
                                       existing_index, today)]
            /\ saveCalls' = Append(saveCalls, [at |-> idx, threads |-> processed_threads])
            /\ firstCreated' = IF firstCreated[edition] = None
                               THEN [firstCreated EXCEPT ![edition] = today]
                               ELSE firstCreated
       ELSE UNCHANGED <<files, saveCalls, firstCreated>>
    /\ pc' = "returned"
    /\ UNCHANGED <<today, runs, edition, repo_path, selected_mids, existing_index,
                   idx, processed_threads, attempts, outcomes, edits, tui_done_mids, written>>

\* main returns; the objects of the run are gone
MainEnd ==
    /\ UNCHANGED notProc
    /\ pc = "returned"
    /\ pc' = "idle"
    /\ runs' = runs + 1
    /\ edition' = 1
    /\ repo_path' = "none"
    /\ selected_mids' = <<>>
    /\ existing_index' = NoIndex
    /\ idx' = 0
    /\ processed_threads' = <<>>
    /\ attempts' = <<>>
    /\ outcomes' = <<>>
    /\ saveCalls' = <<>>
    /\ written' = <<>>
    /\ UNCHANGED <<files, today, edits, firstCreated, tui_done_mids>>

\* ------------------------------------------------------------------------
\* The environment between two runs
\* ------------------------------------------------------------------------
NextDay ==
    /\ UNCHANGED notProc
    /\ pc = "idle"
    /\ today < MaxDay
    /\ today' = today + 1
    /\ UNCHANGED <<files, runs, pc, edition, repo_path, selected_mids,
                   existing_index, idx, processed_threads, attempts, outcomes,
                   saveCalls, edits, firstCreated, tui_done_mids, written>>

\* the operator writes a note on the Notes line of an entry
OperatorEditsNotes(e, i) ==
    /\ UNCHANGED notProc
    /\ pc = "idle"
    /\ edits < MaxEdits
    /\ edits' = edits + 1
    /\ i \in 1..Len(files[e].lines)
    /\ files[e].lines[i] = NotesLine(<<>>)
    /\ files' = [files EXCEPT ![e].lines[i] = NotesLine(<<"n">>)]
    /\ UNCHANGED <<today, runs, pc, edition, repo_path, selected_mids,
                   existing_index, idx, processed_threads, attempts, outcomes,
                   saveCalls, firstCreated, tui_done_mids, written>>

RemoveAt(s, i) == SubSeq(s, 1, i - 1) \o SubSeq(s, i + 1, Len(s))

\* an edit that loses a delimiter line of the metadata block
OperatorDamagesMetadata(e, i) ==
    /\ UNCHANGED notProc
    /\ pc = "idle"
    /\ edits < MaxEdits
    /\ edits' = edits + 1
    /\ i \in 1..Len(files[e].lines)
    /\ IsFm(files[e].lines[i])
    /\ files' = [files EXCEPT ![e].lines = RemoveAt(files[e].lines, i)]
    /\ UNCHANGED <<today, runs, pc, edition, repo_path, selected_mids,
                   existing_index, idx, processed_threads, attempts, outcomes,
                   saveCalls, firstCreated, tui_done_mids, written>>


\* ------------------------------------------------------------------------
\* ThreadSelectorTUI
\* ------------------------------------------------------------------------
\* the keys getch can deliver
PrintableKeys == {"k", "j", " ", "q", "Q", "?", "a", "/", "n", "p"}
ControlKeys == {"KEY_UP", "KEY_DOWN", "ENTER", "ESC", "BACKSPACE", "CTRL_P", "KEY_F1"}
Keys == PrintableKeys \cup ControlKeys

MaxTerm == 2
RowChoices == {5, 6}
\* the lengths of the thread list of a session
ThreadCounts == {0, 1, NumThreads}

NoResult == [returned |-> FALSE, mids |-> <<>>]
Returned(mids) == [returned |-> TRUE, mids |-> mids]

\* str.lower() on the characters of the model
LowerChar(c) == IF c = "Q" THEN "q" ELSE c
Lower(str) == [i \in 1..Len(str) |-> LowerChar(str[i])]

\* a in b, for strings
IsSubstring(a, b) ==
    \E i \in 1..(Len(b) - Len(a) + 1) : SubSeq(b, i, i + Len(a) - 1) = a

\* the elements of a set of numbers in ascending order
RECURSIVE Ascending(_)
Ascending(S) ==
    IF S = {} THEN <<>>
    ELSE LET m == CHOOSE x \in S : \A y \in S : x <= y
         IN  <<m>> \o Ascending(S \ {m})

\* find_matches comparing the characters as typed
find_matches_CaseSensitive(ths, term) ==
    IF term = <<>> THEN <<>>
    ELSE Ascending({i \in 0..(Len(ths) - 1) : IsSubstring(term, ths[i + 1].subject)})

find_matches(ths, term) ==
    IF term = <<>> THEN <<>>
    ELSE Ascending({i \in 0..(Len(ths) - 1) :
                      IsSubstring(Lower(term), Lower(ths[i + 1].subject))})

\* seq[i] with Python's indexing (0-based, negative from the end)
PyAt(seq, i) == IF i < 0 THEN seq[Len(seq) + i + 1] ELSE seq[i + 1]

\* the smaller of two numbers replaced by the second
Min_Unclamped(a, b) == b

Max(a, b) == IF a > b THEN a ELSE b
Min(a, b) == IF a < b THEN a ELSE b

\* render: the marker of the row of thread t, given self.done_mids and the
\* selection bit of the row
Marker(dm, t, isSelected) ==
    IF t.root_mid \in dm THEN "[D]"
    ELSE IF isSelected THEN "[X]" ELSE "[ ]"

TuiInit ==
    /\ \E n \in ThreadCounts : threads = SubSeq(Threads, 1, n)
    /\ selected = [i \in 1..Len(threads) |-> FALSE]
    /\ cursor = 0
    /\ offset = 0
    /\ search_term = <<>>
    /\ search_matches = <<>>
    /\ current_match_idx = -1
    /\ searching = FALSE
    /\ show_help_overlay = FALSE
    /\ show_preview = TRUE
    /\ done_mids \in {{}, {Threads[1].root_mid}}
    /\ rows \in RowChoices
    /\ tpc = "start"
    /\ result = NoResult

\* the selector when no session is modelled
TuiIdle ==
    /\ threads = <<>>
    /\ selected = <<>>
    /\ cursor = 0
    /\ offset = 0
    /\ search_term = <<>>
    /\ search_matches = <<>>
    /\ current_match_idx = -1
    /\ searching = FALSE
    /\ show_help_overlay = FALSE
    /\ show_preview = TRUE
    /\ done_mids = {}
    /\ rows = 5
    /\ tpc = "idle"
    /\ result = NoResult

notTui == <<procVars, idxVars, twinVars, leaving, previewVars, mainVars, edVars>>

\* what render leaves alone
notRender == <<procVars, idxVars, twinVars, leaving, mainVars, edVars>>

\* run, before the loop
RunStartStep ==
    /\ tpc = "start"
    /\ IF threads = <<>>
       THEN tpc' = "done" /\ result' = Returned(<<>>)
       ELSE tpc' = "render" /\ result' = result
    /\ UNCHANGED <<threads, selected, cursor, offset, search_term, search_matches,
                   current_match_idx, searching, show_help_overlay, show_preview,
                   done_mids, rows>>

RunStart == UNCHANGED notTui /\ RunStartStep

\* ------------------------------------------------------------------------
\* the preview pane: fetch_email_body and the part of render that calls it
\* ------------------------------------------------------------------------
\* the lines git show prints for a blob; a blob's content never changes.
\* "" is the empty line, " cont" a line that starts with a blank
MailOf(blob) ==
    IF blob = Threads[1].blob
    THEN <<"From: a", "Subject: s", "", "l1", "", "l3", "l4", "l5", "l6">>
    ELSE IF blob = Threads[2].blob
    THEN <<"From: b", "", " cont", "", "b1">>
    ELSE <<"From: c", "">>

StartsBlank(line) == line = " cont"

\* the loop of fetch_email_body over the lines: the header ends at the first
\* empty line that no continuation line follows, and that line is kept
RECURSIVE BodyFrom(_, _, _)
BodyFrom(lines, i, header_ended) ==
    IF i > Len(lines) THEN <<>>
    ELSE LET line == lines[i]
             next_line == IF i + 1 <= Len(lines) THEN lines[i + 1] ELSE ""
             ended == \/ header_ended
                      \/ line = "" /\ (next_line = "" \/ ~StartsBlank(next_line))
         IN  IF ended THEN <<line>> \o BodyFrom(lines, i + 1, TRUE)
             ELSE BodyFrom(lines, i + 1, FALSE)

\* body_lines[:max_lines]
Truncate(lines, max_lines) == SubSeq(lines, 1, Min(Len(lines), max_lines))

\* what subprocess.run of git show does: it prints the blob, it ends with an
\* exit status other than 0 and prints nothing, it exceeds the timeout, or
\* there is no git to run
GitOutcomes == {"ok", "exit", "timeout", "nogit"}

\* cache_key = f"{blob_id}:{max_lines}"
CacheKey(blob_id, max_lines) == <<blob_id, max_lines>>

NoPreview == [how |-> "none", body |-> <<>>]

\* fetch_email_body returning the body of the preview before when git show
\* times out or cannot be started
fetch_email_body_StaleOnFailure(blob_id, max_lines, outcome) ==
    LET cache_key == CacheKey(blob_id, max_lines)
    IN  IF cache_key \in DOMAIN preview_cache
        THEN /\ preview' = [how |-> "cache", body |-> preview_cache[cache_key]]
             /\ UNCHANGED preview_cache
        ELSE IF tui_repo_path = "none"
        THEN /\ preview' = [how |-> "norepo", body |-> <<>>]
             /\ UNCHANGED preview_cache
        ELSE IF outcome \in {"ok", "exit"}
        THEN LET stdout == IF outcome = "ok" THEN MailOf(blob_id) ELSE <<>>
                 body_lines == BodyFrom(stdout, 1, FALSE)
             IN  /\ preview_cache' = (cache_key :> Truncate(body_lines, max_lines)) @@ preview_cache
                 /\ preview' = [how |-> outcome, body |-> Truncate(body_lines, max_lines)]
        ELSE /\ preview' = [how |-> outcome, body |-> preview.body]
             /\ UNCHANGED preview_cache

\* fetch_email_body dropping the cache when git show fails
fetch_email_body_ClearsOnFailure(blob_id, max_lines, outcome) ==
    LET cache_key == CacheKey(blob_id, max_lines)
    IN  IF cache_key \in DOMAIN preview_cache
        THEN /\ preview' = [how |-> "cache", body |-> preview_cache[cache_key]]
             /\ UNCHANGED preview_cache
        ELSE IF tui_repo_path = "none"
        THEN /\ preview' = [how |-> "norepo", body |-> <<>>]
             /\ UNCHANGED preview_cache
        ELSE IF outcome \in {"ok", "exit"}
        THEN LET stdout == IF outcome = "ok" THEN MailOf(blob_id) ELSE <<>>
                 body_lines == BodyFrom(stdout, 1, FALSE)
             IN  /\ preview_cache' = (cache_key :> Truncate(body_lines, max_lines)) @@ preview_cache
                 /\ preview' = [how |-> outcome, body |-> Truncate(body_lines, max_lines)]
        ELSE /\ preview' = [how |-> outcome, body |-> <<>>]
             /\ preview_cache' = <<>>

\* fetch_email_body
fetch_email_body(blob_id, max_lines, outcome) ==
    LET cache_key == CacheKey(blob_id, max_lines)
    IN  IF cache_key \in DOMAIN preview_cache
        THEN /\ preview' = [how |-> "cache", body |-> preview_cache[cache_key]]
             /\ UNCHANGED preview_cache
        ELSE IF tui_repo_path = "none"
        THEN /\ preview' = [how |-> "norepo", body |-> <<>>]
             /\ UNCHANGED preview_cache
        ELSE IF outcome \in {"ok", "exit"}
        THEN LET stdout == IF outcome = "ok" THEN MailOf(blob_id) ELSE <<>>
                 body_lines == BodyFrom(stdout, 1, FALSE)
             IN  /\ preview_cache' = (cache_key :> Truncate(body_lines, max_lines)) @@ preview_cache
                 /\ preview' = [how |-> outcome, body |-> Truncate(body_lines, max_lines)]
        ELSE /\ preview' = [how |-> outcome, body |-> <<>>]
             /\ UNCHANGED preview_cache

\* render: list_width and preview_width for a screen of w columns
PreviewWidth(w) ==
    IF w >= 105
    THEN LET list_width == IF w < 75 + 30 THEN Max(50, w - 35) ELSE 75
         IN  w - list_width - 1
    ELSE 0

\* render: whether the preview pane is drawn and the body fetched
PreviewDrawn ==
    /\ ~show_help_overlay
    /\ show_preview /\ cols >= 105
    /\ threads # <<>>
    /\ PreviewWidth(cols) > 10

\* render, the preview pane
PreviewStep ==
    /\ UNCHANGED <<cols, tui_repo_path>>
    /\ IF PreviewDrawn
       THEN \E outcome \in GitOutcomes :
               fetch_email_body(threads[cursor + 1].blob, Max(rows - 14, 5), outcome)
       ELSE preview' = NoPreview /\ UNCHANGED preview_cache

\* a screen too narrow for the preview pane
NarrowScreen ==
    /\ cols = 80
    /\ tui_repo_path = "none"
    /\ preview_cache = <<>>
    /\ preview = NoPreview

\* a screen with room for the preview pane
WideScreen ==
    /\ cols = 120
    /\ tui_repo_path \in {"none", "repo"}
    /\ preview_cache = <<>>
    /\ preview = NoPreview

\* render: the help overlay, which waits for a key, or the list
\* render with the offset moved one row too far when the cursor is past the
\* last visible row
RenderStep_OffByOne ==
    /\ tpc = "render"
    /\ IF show_help_overlay
       THEN tpc' = "help" /\ offset' = offset
       ELSE /\ tpc' = "getch"
            /\ LET visible_rows == rows - 4
               IN  offset' = IF offset > cursor THEN cursor
                             ELSE IF cursor >= offset + visible_rows
                                  THEN cursor - visible_rows + 2
                                  ELSE offset
    /\ UNCHANGED <<threads, selected, cursor, search_term, search_matches,
                   current_match_idx, searching, show_help_overlay, show_preview,
                   done_mids, rows, result>>

RenderStep ==
    /\ tpc = "render"
    /\ IF show_help_overlay
       THEN tpc' = "help" /\ offset' = offset
       ELSE /\ tpc' = "getch"
            /\ LET visible_rows == rows - 4
               IN  offset' = IF offset > cursor THEN cursor
                             ELSE IF cursor >= offset + visible_rows
                                  THEN cursor - visible_rows + 1
                                  ELSE offset
    /\ UNCHANGED <<threads, selected, cursor, search_term, search_matches,
                   current_match_idx, searching, show_help_overlay, show_preview,
                   done_mids, rows, result>>

\* render, whole
Render == UNCHANGED notRender /\ RenderStep /\ PreviewStep

\* show_help with the key that closes the overlay also taking the cursor to
\* the first row
HelpKey_MovesCursor(key) ==
    /\ UNCHANGED notTui
    /\ tpc = "help"
    /\ show_help_overlay' = FALSE
    /\ cursor' = 0
    /\ tpc' = "getch"
    /\ UNCHANGED <<threads, selected, offset, search_term, search_matches,
                   current_match_idx, searching, show_preview, done_mids, rows,
                   result>>

\* show_help, from its getch on: any key closes the overlay, render returns
HelpKeyStep(key) ==
    /\ tpc = "help"
    /\ show_help_overlay' = FALSE
    /\ tpc' = "getch"
    /\ UNCHANGED <<threads, selected, cursor, offset, search_term, search_matches,
                   current_match_idx, searching, show_preview, done_mids, rows,
                   result>>

HelpKey(key) == UNCHANGED notTui /\ HelpKeyStep(key)

\* the value handle_input returns for the quit key
QuitResult == Returned(SelectedMids(threads, selected, 1))

\* handle_input while self.searching, with Enter also emptying the term and
\* the match list
HandleSearching_EnterClears(key) ==
    /\ result' = NoResult
    /\ UNCHANGED <<selected, show_help_overlay, show_preview>>
    /\ IF key = "ENTER"
       THEN /\ searching' = FALSE
            /\ cursor' = IF search_matches # <<>>
                         THEN PyAt(search_matches, current_match_idx) ELSE cursor
            /\ search_term' = <<>>
            /\ search_matches' = <<>>
            /\ current_match_idx' = -1
       ELSE IF key = "ESC"
       THEN /\ searching' = FALSE
            /\ search_term' = <<>>
            /\ search_matches' = <<>>
            /\ current_match_idx' = -1
            /\ UNCHANGED cursor
       ELSE IF key = "BACKSPACE"
       THEN /\ search_term' = SubSeq(search_term, 1, Len(search_term) - 1)
            /\ search_matches' = find_matches(threads, search_term')
            /\ current_match_idx' = IF search_matches' # <<>> THEN 0 ELSE -1
            /\ UNCHANGED <<searching, cursor>>
       ELSE IF key \in PrintableKeys
       THEN /\ search_term' = Append(search_term, key)
            /\ search_matches' = find_matches(threads, search_term')
            /\ current_match_idx' = IF search_matches' # <<>> THEN 0 ELSE -1
            /\ UNCHANGED <<searching, cursor>>
       ELSE UNCHANGED <<searching, cursor, search_term, search_matches, current_match_idx>>

\* handle_input while self.searching, with Escape taking the cursor to the
\* first row
HandleSearching_EscapeMovesCursor(key) ==
    /\ result' = NoResult
    /\ UNCHANGED <<selected, show_help_overlay, show_preview>>
    /\ IF key = "ENTER"
       THEN /\ searching' = FALSE
            /\ cursor' = IF search_matches # <<>>
                         THEN PyAt(search_matches, current_match_idx) ELSE cursor
            /\ UNCHANGED <<search_term, search_matches, current_match_idx>>
       ELSE IF key = "ESC"
       THEN /\ searching' = FALSE
            /\ search_term' = <<>>
            /\ search_matches' = <<>>
            /\ current_match_idx' = -1
            /\ cursor' = 0
       ELSE IF key = "BACKSPACE"
       THEN /\ search_term' = SubSeq(search_term, 1, Len(search_term) - 1)
            /\ search_matches' = find_matches(threads, search_term')
            /\ current_match_idx' = IF search_matches' # <<>> THEN 0 ELSE -1
            /\ UNCHANGED <<searching, cursor>>
       ELSE IF key \in PrintableKeys
       THEN /\ search_term' = Append(search_term, key)
            /\ search_matches' = find_matches(threads, search_term')
            /\ current_match_idx' = IF search_matches' # <<>> THEN 0 ELSE -1
            /\ UNCHANGED <<searching, cursor>>
       ELSE UNCHANGED <<searching, cursor, search_term, search_matches, current_match_idx>>

\* handle_input while self.searching, with the match pointer left alone when
\* a character is added to the term
HandleSearching_KeepsPointer(key) ==
    /\ result' = NoResult
    /\ UNCHANGED <<selected, show_help_overlay, show_preview>>
    /\ IF key = "ENTER"
       THEN /\ searching' = FALSE
            /\ cursor' = IF search_matches # <<>>
                         THEN PyAt(search_matches, current_match_idx) ELSE cursor
            /\ UNCHANGED <<search_term, search_matches, current_match_idx>>
       ELSE IF key = "ESC"
       THEN /\ searching' = FALSE
            /\ search_term' = <<>>
            /\ search_matches' = <<>>
            /\ current_match_idx' = -1
            /\ UNCHANGED cursor
       ELSE IF key = "BACKSPACE"
       THEN /\ search_term' = SubSeq(search_term, 1, Len(search_term) - 1)
            /\ search_matches' = find_matches(threads, search_term')
            /\ current_match_idx' = IF search_matches' # <<>> THEN 0 ELSE -1
            /\ UNCHANGED <<searching, cursor>>
       ELSE IF key \in PrintableKeys
       THEN /\ search_term' = Append(search_term, key)
            /\ search_matches' = find_matches(threads, search_term')
            /\ current_match_idx' = current_match_idx
            /\ UNCHANGED <<searching, cursor>>
       ELSE UNCHANGED <<searching, cursor, search_term, search_matches, current_match_idx>>

\* handle_input while self.searching
HandleSearching(key) ==
    /\ result' = NoResult
    /\ UNCHANGED <<selected, show_help_overlay, show_preview>>
    /\ IF key = "ENTER"
       THEN /\ searching' = FALSE
            /\ cursor' = IF search_matches # <<>>
                         THEN PyAt(search_matches, current_match_idx) ELSE cursor
            /\ UNCHANGED <<search_term, search_matches, current_match_idx>>
       ELSE IF key = "ESC"
       THEN /\ searching' = FALSE
            /\ search_term' = <<>>
            /\ search_matches' = <<>>
            /\ current_match_idx' = -1
            /\ UNCHANGED cursor
       ELSE IF key = "BACKSPACE"
       THEN /\ search_term' = SubSeq(search_term, 1, Len(search_term) - 1)
            /\ search_matches' = find_matches(threads, search_term')
            /\ current_match_idx' = IF search_matches' # <<>> THEN 0 ELSE -1
            /\ UNCHANGED <<searching, cursor>>
       ELSE IF key \in PrintableKeys
       THEN /\ search_term' = Append(search_term, key)
            /\ search_matches' = find_matches(threads, search_term')
            /\ current_match_idx' = IF search_matches' # <<>> THEN 0 ELSE -1
            /\ UNCHANGED <<searching, cursor>>
       ELSE UNCHANGED <<searching, cursor, search_term, search_matches, current_match_idx>>

\* the space key setting the bit of row c instead of flipping it
Toggle_SetOnly(sel, c) == [sel EXCEPT ![c + 1] = TRUE]

\* self.selected[self.cursor] = not self.selected[self.cursor], for cursor c
Toggle(sel, c) == [sel EXCEPT ![c + 1] = ~sel[c + 1]]

\* the select-all key inverting every bit on its own
SelectAll_InvertEach(sel, n) == [i \in 1..n |-> ~sel[i]]

\* all_selected = all(self.selected); self.selected = [not all_selected] * n
SelectAll(sel, n) ==
    LET all_selected == \A i \in 1..Len(sel) : sel[i]
    IN  [i \in 1..n |-> ~all_selected]

\* the step to the next match stopping at the last one
NextMatchIdx_NoWrap(ptr, k) == IF ptr + 1 < k THEN ptr + 1 ELSE k - 1

\* (self.current_match_idx + 1) % len(self.search_matches)
NextMatchIdx(ptr, k) == (ptr + 1) % k

\* (self.current_match_idx - 1) % len(self.search_matches)
PrevMatchIdx(ptr, k) == (ptr - 1) % k

\* handle_input while not self.searching
HandleBrowsing(key) ==
    /\ UNCHANGED show_preview
    /\ result' = IF key \in {"q", "Q"} THEN QuitResult ELSE NoResult
    /\ cursor' = IF key \in {"KEY_UP", "k"} THEN Max(0, cursor - 1)
                 ELSE IF key \in {"KEY_DOWN", "j"} THEN Min(Len(threads) - 1, cursor + 1)
                 ELSE IF key = "n" /\ search_matches # <<>>
                 THEN PyAt(search_matches, NextMatchIdx(current_match_idx, Len(search_matches)))
                 ELSE IF key = "p" /\ search_matches # <<>>
                 THEN PyAt(search_matches, PrevMatchIdx(current_match_idx, Len(search_matches)))
                 ELSE cursor
    /\ selected' = IF key = " " THEN Toggle(selected, cursor)
                   ELSE IF key = "a" THEN SelectAll(selected, Len(threads))
                   ELSE selected
    /\ show_help_overlay' = IF key = "?" THEN TRUE ELSE show_help_overlay
    /\ searching' = IF key = "/" THEN TRUE ELSE searching
    /\ search_term' = IF key = "/" THEN <<>> ELSE search_term
    /\ search_matches' = IF key = "/" THEN <<>> ELSE search_matches
    /\ current_match_idx' =
          IF key = "/" THEN -1
          ELSE IF key = "n" /\ search_matches # <<>>
          THEN NextMatchIdx(current_match_idx, Len(search_matches))
          ELSE IF key = "p" /\ search_matches # <<>>
          THEN PrevMatchIdx(current_match_idx, Len(search_matches))
          ELSE current_match_idx

\* handle_input with the space key toggling the row under the cursor in
\* Searching mode too
handle_input_SpaceTogglesAlways(key) ==
    IF key = "CTRL_P"
    THEN /\ show_preview' = ~show_preview
         /\ result' = NoResult
         /\ UNCHANGED <<selected, cursor, search_term, search_matches,
                        current_match_idx, searching, show_help_overlay>>
    ELSE IF searching /\ key # " " THEN HandleSearching(key) ELSE HandleBrowsing(key)

\* handle_input with the Ctrl+P test placed in the Browsing branch only
handle_input_PreviewKeyInBrowsingOnly(key) ==
    IF key = "CTRL_P" /\ ~searching
    THEN /\ show_preview' = ~show_preview
         /\ result' = NoResult
         /\ UNCHANGED <<selected, cursor, search_term, search_matches,
                        current_match_idx, searching, show_help_overlay>>
    ELSE IF searching THEN HandleSearching(key) ELSE HandleBrowsing(key)

handle_input(key) ==
    IF key = "CTRL_P"
    THEN /\ show_preview' = ~show_preview
         /\ result' = NoResult
         /\ UNCHANGED <<selected, cursor, search_term, search_matches,
                        current_match_idx, searching, show_help_overlay>>
    ELSE IF searching THEN HandleSearching(key) ELSE HandleBrowsing(key)

\* the loop of run with "if result:" in place of "if result is not None:"
HandleKey_TruthyResult(key) ==
    /\ UNCHANGED notTui
    /\ tpc = "getch"
    /\ key \in PrintableKeys /\ searching => Len(search_term) < MaxTerm
    /\ handle_input(key)
    /\ tpc' = IF result'.returned /\ result'.mids # <<>> THEN "done" ELSE "render"
    /\ UNCHANGED <<threads, offset, done_mids, rows>>

\* the loop of run ending on the Enter key as well
HandleKeyStep_EnterEndsRun(key) ==
    /\ tpc = "getch"
    /\ key \in PrintableKeys /\ searching => Len(search_term) < MaxTerm
    /\ handle_input(key)
    /\ tpc' = IF result'.returned \/ key = "ENTER" THEN "done" ELSE "render"
    /\ UNCHANGED <<threads, offset, done_mids, rows>>

\* the loop of run from getch on: the key is handled and the loop ends when
\* handle_input returns a list
HandleKeyStep(key) ==
    /\ tpc = "getch"
    /\ key \in PrintableKeys /\ searching => Len(search_term) < MaxTerm
    /\ handle_input(key)
    /\ tpc' = IF result'.returned THEN "done" ELSE "render"
    /\ UNCHANGED <<threads, offset, done_mids, rows>>

HandleKey(key) == UNCHANGED notTui /\ HandleKeyStep(key)

\* the height of a tall screen
TallRows == 20

\* the terminal is resized to h rows while run waits for a key: getch returns
\* KEY_RESIZE, for which handle_input has no branch, and the next render reads
\* the new height
Resize(h) ==
    /\ UNCHANGED notTui
    /\ tpc = "getch"
    /\ h # rows
    /\ rows' = h
    /\ tpc' = "render"
    /\ UNCHANGED <<threads, selected, cursor, offset, search_term, search_matches,
                   current_match_idx, searching, show_help_overlay, show_preview,
                   done_mids, result>>

\* ------------------------------------------------------------------------
\* a second session of ThreadSelectorTUI: the same code on its own fields
\* ------------------------------------------------------------------------
\* the second selector when it is not modelled
TwinIdle ==
    /\ threads2 = <<>>
    /\ selected2 = <<>>
    /\ cursor2 = 0
    /\ offset2 = 0
    /\ search_term2 = <<>>
    /\ search_matches2 = <<>>
    /\ current_match_idx2 = -1
    /\ searching2 = FALSE
    /\ show_help_overlay2 = FALSE
    /\ show_preview2 = TRUE
    /\ done_mids2 = {}
    /\ rows2 = 5
    /\ tpc2 = "idle"
    /\ result2 = NoResult

\* ThreadSelectorTUI.__init__ on the thread list and the screen of the first
\* session, with another done_mids
TwinInit ==
    /\ threads2 = threads
    /\ selected2 = [i \in 1..Len(threads2) |-> FALSE]
    /\ cursor2 = 0
    /\ offset2 = 0
    /\ search_term2 = <<>>
    /\ search_matches2 = <<>>
    /\ current_match_idx2 = -1
    /\ searching2 = FALSE
    /\ show_help_overlay2 = FALSE
    /\ show_preview2 = TRUE
    /\ done_mids2 \in {{}, {Threads[1].root_mid}} \ {done_mids}
    /\ rows2 = rows
    /\ tpc2 = "start"
    /\ result2 = NoResult

\* run, before the loop
RunStartStep2 ==
    /\ tpc2 = "start"
    /\ IF threads2 = <<>>
       THEN tpc2' = "done" /\ result2' = Returned(<<>>)
       ELSE tpc2' = "render" /\ result2' = result2
    /\ UNCHANGED <<threads2, selected2, cursor2, offset2, search_term2, search_matches2,
                   current_match_idx2, searching2, show_help_overlay2, show_preview2,
                   done_mids2, rows2>>

\* render: the help overlay, which waits for a key, or the list
RenderStep2 ==
    /\ tpc2 = "render"
    /\ IF show_help_overlay2
       THEN tpc2' = "help" /\ offset2' = offset2
       ELSE /\ tpc2' = "getch"
            /\ LET visible_rows == rows2 - 4
               IN  offset2' = IF offset2 > cursor2 THEN cursor2
                             ELSE IF cursor2 >= offset2 + visible_rows
                                  THEN cursor2 - visible_rows + 1
                                  ELSE offset2
    /\ UNCHANGED <<threads2, selected2, cursor2, search_term2, search_matches2,
                   current_match_idx2, searching2, show_help_overlay2, show_preview2,
                   done_mids2, rows2, result2>>

\* show_help, from its getch on: any key closes the overlay, render returns
HelpKeyStep2(key) ==
    /\ tpc2 = "help"
    /\ show_help_overlay2' = FALSE
    /\ tpc2' = "getch"
    /\ UNCHANGED <<threads2, selected2, cursor2, offset2, search_term2, search_matches2,
                   current_match_idx2, searching2, show_preview2, done_mids2, rows2,
                   result2>>

\* the quit key returning the selected threads that are not marked done
QuitResult2_WithoutDone ==
    Returned(SelectSeq(SelectedMids(threads2, selected2, 1),
                       LAMBDA m : m \notin done_mids2))

\* the value handle_input returns for the quit key
QuitResult2 == Returned(SelectedMids(threads2, selected2, 1))

\* handle_input while self.searching
HandleSearching2(key) ==
    /\ result2' = NoResult
    /\ UNCHANGED <<selected2, show_help_overlay2, show_preview2>>
    /\ IF key = "ENTER"
       THEN /\ searching2' = FALSE
            /\ cursor2' = IF search_matches2 # <<>>
                         THEN PyAt(search_matches2, current_match_idx2) ELSE cursor2
            /\ UNCHANGED <<search_term2, search_matches2, current_match_idx2>>
       ELSE IF key = "ESC"
       THEN /\ searching2' = FALSE
            /\ search_term2' = <<>>
            /\ search_matches2' = <<>>
            /\ current_match_idx2' = -1
            /\ UNCHANGED cursor2
       ELSE IF key = "BACKSPACE"
       THEN /\ search_term2' = SubSeq(search_term2, 1, Len(search_term2) - 1)
            /\ search_matches2' = find_matches(threads2, search_term2')
            /\ current_match_idx2' = IF search_matches2' # <<>> THEN 0 ELSE -1
            /\ UNCHANGED <<searching2, cursor2>>
       ELSE IF key \in PrintableKeys
       THEN /\ search_term2' = Append(search_term2, key)
            /\ search_matches2' = find_matches(threads2, search_term2')
            /\ current_match_idx2' = IF search_matches2' # <<>> THEN 0 ELSE -1
            /\ UNCHANGED <<searching2, cursor2>>
       ELSE UNCHANGED <<searching2, cursor2, search_term2, search_matches2, current_match_idx2>>

\* handle_input while not self.searching
HandleBrowsing2(key) ==
    /\ UNCHANGED show_preview2
    /\ result2' = IF key \in {"q", "Q"} THEN QuitResult2 ELSE NoResult
    /\ cursor2' = IF key \in {"KEY_UP", "k"} THEN Max(0, cursor2 - 1)
                 ELSE IF key \in {"KEY_DOWN", "j"} THEN Min(Len(threads2) - 1, cursor2 + 1)
                 ELSE IF key = "n" /\ search_matches2 # <<>>
                 THEN PyAt(search_matches2, NextMatchIdx(current_match_idx2, Len(search_matches2)))
                 ELSE IF key = "p" /\ search_matches2 # <<>>
                 THEN PyAt(search_matches2, PrevMatchIdx(current_match_idx2, Len(search_matches2)))
                 ELSE cursor2
    /\ selected2' = IF key = " " THEN Toggle(selected2, cursor2)
                   ELSE IF key = "a" THEN SelectAll(selected2, Len(threads2))
                   ELSE selected2
    /\ show_help_overlay2' = IF key = "?" THEN TRUE ELSE show_help_overlay2
    /\ searching2' = IF key = "/" THEN TRUE ELSE searching2
    /\ search_term2' = IF key = "/" THEN <<>> ELSE search_term2
    /\ search_matches2' = IF key = "/" THEN <<>> ELSE search_matches2
    /\ current_match_idx2' =
          IF key = "/" THEN -1
          ELSE IF key = "n" /\ search_matches2 # <<>>
          THEN NextMatchIdx(current_match_idx2, Len(search_matches2))
          ELSE IF key = "p" /\ search_matches2 # <<>>
          THEN PrevMatchIdx(current_match_idx2, Len(search_matches2))
          ELSE current_match_idx2

handle_input2(key) ==
    IF key = "CTRL_P"
    THEN /\ show_preview2' = ~show_preview2
         /\ result2' = NoResult
         /\ UNCHANGED <<selected2, cursor2, search_term2, search_matches2,
                        current_match_idx2, searching2, show_help_overlay2>>
    ELSE IF searching2 THEN HandleSearching2(key) ELSE HandleBrowsing2(key)

\* the loop of run from getch on: the key is handled and the loop ends when
\* handle_input returns a list
HandleKeyStep2(key) ==
    /\ tpc2 = "getch"
    /\ key \in PrintableKeys /\ searching2 => Len(search_term2) < MaxTerm
    /\ handle_input2(key)
    /\ tpc2' = IF result2'.returned THEN "done" ELSE "render"
    /\ UNCHANGED <<threads2, offset2, done_mids2, rows2>>

\* both sessions take the same step of run, the second on the key of the first
notPair == <<procVars, idxVars, leaving, previewVars, mainVars, edVars>>

PairRunStart == UNCHANGED notPair /\ RunStartStep /\ RunStartStep2

PairRender == UNCHANGED notPair /\ RenderStep /\ RenderStep2

PairHelpKey(key) == UNCHANGED notPair /\ HelpKeyStep(key) /\ HelpKeyStep2(key)

PairHandleKey(key) == UNCHANGED notPair /\ HandleKeyStep(key) /\ HandleKeyStep2(key)

\* ------------------------------------------------------------------------
\* compute_edition and the edition of a run
\* ------------------------------------------------------------------------
\* the year the editions are counted from
EpochYear == 2015

\* the years of the dates: from the year before the epoch on
NumYears == 2
FirstYear == EpochYear - 1

IsLeap(y) == (y % 4 = 0 /\ y % 100 # 0) \/ y % 400 = 0

DaysInMonth(y, m) ==
    IF m = 2 THEN (IF IsLeap(y) THEN 29 ELSE 28)
    ELSE IF m \in {4, 6, 9, 11} THEN 30 ELSE 31

Date(y, m, d) == [year |-> y, month |-> m, day |-> d]

Dates ==
    {Date(y, m, d) : y \in FirstYear..(FirstYear + NumYears), m \in 1..12, d \in 1..31}
       \cap {dt \in [year : FirstYear..(FirstYear + NumYears), month : 1..12, day : 1..31] :
                dt.day <= DaysInMonth(dt.year, dt.month)}

\* the day before the first of the month, staying in the year
DayBeforeFirst_SameYear(date) ==
    IF date.month = 1 THEN Date(date.year, 12, 31)
    ELSE Date(date.year, date.month - 1, DaysInMonth(date.year, date.month - 1))

\* date.replace(day=1) - timedelta(days=1)
DayBeforeFirst(date) ==
    IF date.month = 1 THEN Date(date.year - 1, 12, 31)
    ELSE Date(date.year, date.month - 1, DaysInMonth(date.year, date.month - 1))

compute_edition(date) ==
    LET ref == IF date.day < 10 THEN DayBeforeFirst(date) ELSE date
    IN  (ref.year - EpochYear) * 12 + ref.month - 2

\* the values of --edition
EditionArgs == {None, 7}

\* the edition when it is not modelled
EditionIdle ==
    /\ now_date = Date(2015, 3, 10)
    /\ args_edition = None
    /\ main_edition = None
    /\ epc = "idle"

EditionInit ==
    /\ now_date \in Dates
    /\ args_edition \in EditionArgs
    /\ main_edition = None
    /\ epc = "input"

\* main: edition = args.edition if args.edition is not None else
\* compute_edition(datetime.now())
SetEdition ==
    /\ UNCHANGED <<procVars, tuiVars, idxVars, twinVars, leaving, previewVars, mainVars>>
    /\ epc = "input"
    /\ main_edition' = IF args_edition # None THEN args_edition
                       ELSE compute_edition(now_date)
    /\ epc' = "done"
    /\ UNCHANGED <<now_date, args_edition>>

\* ------------------------------------------------------------------------
\* main around the selector: environment check, query, selector, export
\* ------------------------------------------------------------------------
\* main when it is not modelled
MainIdle ==
    /\ mpc = "idle"
    /\ cause = "none"
    /\ exit_status = None

\* the program is started
MainInit ==
    /\ mpc = "start"
    /\ cause = "none"
    /\ exit_status = None

\* what main leaves alone before the selector runs
notMain == <<procVars, tuiVars, idxVars, twinVars, leaving, previewVars, edVars>>

\* check_and_manage_environment going on without lei
CheckEnvironment_WarnsOnly(lei_found) ==
    /\ UNCHANGED notMain
    /\ mpc = "start"
    /\ mpc' = "env_ok"
    /\ cause' = IF lei_found THEN cause ELSE "nolei"
    /\ UNCHANGED exit_status

\* check_and_manage_environment: sys.exit(1) when shutil.which finds no lei;
\* setting up or updating the mirrors returns whatever the operator answers
CheckEnvironment(lei_found) ==
    /\ UNCHANGED notMain
    /\ mpc = "start"
    /\ IF lei_found
       THEN mpc' = "env_ok" /\ UNCHANGED <<cause, exit_status>>
       ELSE mpc' = "exited" /\ cause' = "nolei" /\ exit_status' = 1

\* what lei q does: it ends with an error status, it prints text that is not
\* JSON, it prints nothing or an empty JSON list, or it prints messages
QueryOutcomes == {"failed", "malformed", "empty", "messages"}

\* get_lei_results and main with an empty result reported as an error
GetLeiResults_EmptyIsError(outcome) ==
    /\ UNCHANGED notMain
    /\ mpc = "env_ok"
    /\ cause' = outcome
    /\ IF outcome \in {"failed", "malformed", "empty"}
       THEN mpc' = "exited" /\ exit_status' = 1
       ELSE mpc' = "messages" /\ UNCHANGED exit_status

\* get_lei_results and the lines of main around it: CalledProcessError and
\* JSONDecodeError become a RuntimeError, on which main ends with
\* sys.exit(1); on an empty result main returns
GetLeiResults(outcome) ==
    /\ UNCHANGED notMain
    /\ mpc = "env_ok"
    /\ cause' = outcome
    /\ IF outcome \in {"failed", "malformed"}
       THEN mpc' = "exited" /\ exit_status' = 1
       ELSE IF outcome = "empty"
       THEN mpc' = "exited" /\ exit_status' = 0
       ELSE mpc' = "messages" /\ UNCHANGED exit_status

\* main from analyze_threads to ThreadSelectorTUI(summarizable_threads,
\* repo_path): n threads match the criteria, the screen has h rows; main
\* returns when none matches
OpenSelector(n, h) ==
    /\ UNCHANGED <<procVars, idxVars, twinVars, leaving, previewVars, edVars>>
    /\ mpc = "messages"
    /\ IF n = 0
       THEN /\ mpc' = "exited" /\ cause' = "nomatch" /\ exit_status' = 0
            /\ UNCHANGED tuiVars
       ELSE /\ mpc' = "selector" /\ UNCHANGED <<cause, exit_status>>
            /\ threads' = SubSeq(Threads, 1, n)
            /\ selected' = [i \in 1..n |-> FALSE]
            /\ cursor' = 0
            /\ offset' = 0
            /\ search_term' = <<>>
            /\ search_matches' = <<>>
            /\ current_match_idx' = -1
            /\ searching' = FALSE
            /\ show_help_overlay' = FALSE
            /\ show_preview' = TRUE
            /\ done_mids' = {}
            /\ rows' = h
            /\ tpc' = "start"
            /\ result' = NoResult

\* tui.run() returned to main
SelectorReturned ==
    /\ UNCHANGED notMain
    /\ mpc = "selector"
    /\ tpc = "done"
    /\ mpc' = "selected"
    /\ UNCHANGED <<cause, exit_status>>

\* the selection bits of the rows, over all candidate threads
SelectedBits == [i \in 1..NumThreads |-> i <= Len(selected) /\ selected[i]]

\* main from "if selected_mids:" on, with the list the selector returned
MainTakesSelection ==
    /\ mpc = "selected"
    /\ runs = 0
    /\ \E e \in Editions, rp \in {"none", "repo"} : MainSelect(e, rp, SelectedBits)

\* main returns after the selector
MainReturns ==
    /\ UNCHANGED notMain
    /\ mpc = "selected"
    /\ runs = 1 /\ pc = "idle"
    /\ mpc' = "exited"
    /\ exit_status' = 0
    /\ UNCHANGED cause

\* ------------------------------------------------------------------------
\* an operator who, at some moment of the session, starts to leave it
\* ------------------------------------------------------------------------
\* the key of handle_input that brings the session nearer to its end:
\* Escape out of Searching mode (lines 540-544), q in Browsing (561-562)
LeaveKey == IF searching THEN "ESC" ELSE "q"

\* any key, as long as the operator has not started to leave
StayKey(key) == ~leaving /\ HandleKey(key)

\* the operator starts to leave, wherever the session is
DecideToLeave ==
    /\ ~leaving
    /\ tpc \in {"start", "render", "help", "getch"}
    /\ leaving' = TRUE
    /\ UNCHANGED <<procVars, tuiVars, idxVars, twinVars, previewVars, mainVars, edVars>>

\* the next key of an operator who is leaving
LeaveStep == leaving /\ HandleKey(LeaveKey)

\* ------------------------------------------------------------------------
\* MailingListStore.analyze_threads
\* ------------------------------------------------------------------------
MIN_MSG_COUNT == 5
MAX_MSG_COUNT == 40
MIN_AGE_DAYS == 21
MAX_AGE_DAYS == 90

\* MailingListStore.__init__
DefaultStore ==
    [min_msg_count |-> MIN_MSG_COUNT, max_msg_count |-> MAX_MSG_COUNT,
     min_age_days |-> MIN_AGE_DAYS, max_age_days |-> MAX_AGE_DAYS]

\* a store whose thresholds were set to small values
SmallStore ==
    [min_msg_count |-> 2, max_msg_count |-> 3, min_age_days |-> 1, max_age_days |-> 2]

HalfDaysPerDay == 2

\* the thresholds and the clock of a call: (store, now)
Scenarios ==
    {<<DefaultStore, 42>>, <<DefaultStore, 182>>,
     <<SmallStore, 2>>, <<SmallStore, 4>>, <<SmallStore, 6>>}

MaxMsgs == 5

\* the field dt of a record: absent, null, a string that is no date, or a
\* date (t, in half days)
DtMissing == [kind |-> "missing", t |-> 0]
DtNull == [kind |-> "null", t |-> 0]
DtText == [kind |-> "text", t |-> 0]
DtIso(t) == [kind |-> "iso", t |-> t]

\* the field f of a record: a list of senders (name, address), or null
Senders(list) == [kind |-> "list", list |-> list]
FNull == [kind |-> "null", list |-> <<>>]

\* a record of the query result; m = "" stands for no message id
Msg(refs, m, dt, f, s, blob) ==
    [empty |-> FALSE, refs |-> refs, m |-> m, dt |-> dt, f |-> f, s |-> s, blob |-> blob]

EmptyMsg ==
    [empty |-> TRUE, refs |-> <<>>, m |-> "", dt |-> DtMissing, f |-> Senders(<<>>),
     s |-> "", blob |-> ""]

Ann == <<"Ann", "ann@x">>
Bob == <<"Bob", "bob@x">>
\* the name of Ann with the address of Bob, and an address without a name
AnnAtBob == <<"Ann", "bob@x">>
Nameless == <<"", "ann@x">>

MessagePool ==
    { Msg(<<"r">>, "m1", DtIso(0), Senders(<<Ann>>), "s1", "b1"),
      Msg(<<"r", "m1">>, "m2", DtIso(1), Senders(<<Bob>>), "s2", "b2"),
      Msg(<<"r">>, "m3", DtMissing, Senders(<<AnnAtBob, <<"solo">>>>), "s3", "b3"),
      Msg(<<>>, "r", DtIso(0), Senders(<<Nameless>>), "s0", "b0"),
      Msg(<<>>, "q", DtText, FNull, "s4", "b4"),
      Msg(<<"q">>, "m5", DtIso(1), Senders(<<Ann>>), "s5", "b5"),
      Msg(<<"r">>, "m6", DtNull, Senders(<<Bob>>), "s6", "b6"),
      EmptyMsg }

\* the thread id taken from the last element of the reference list
ThreadId_LastRef(msg) ==
    IF msg.empty THEN ""
    ELSE IF msg.refs # <<>> THEN msg.refs[Len(msg.refs)] ELSE msg.m

\* the thread id the first loop gives a record, "" when it is skipped
ThreadId(msg) ==
    IF msg.empty THEN ""
    ELSE IF msg.refs # <<>> THEN msg.refs[1] ELSE msg.m

\* the keys of the dict threads, in insertion order
RECURSIVE ThreadOrder(_, _)
ThreadOrder(msgs, seen) ==
    IF msgs = <<>> THEN <<>>
    ELSE LET t == ThreadId(Head(msgs))
         IN  IF t = "" \/ t \in seen
             THEN ThreadOrder(Tail(msgs), seen)
             ELSE <<t>> \o ThreadOrder(Tail(msgs), seen \cup {t})

\* threads[t_id]
ThreadMsgs(msgs, t_id) == SelectSeq(msgs, LAMBDA msg : ThreadId(msg) = t_id)

\* parse_date(m.get('dt')): whether it returns a datetime
Parses(dt) == dt.kind = "iso"

\* max(dates)
LastDate(msgs) ==
    LET dates == {msgs[i].dt.t : i \in {j \in 1..Len(msgs) : Parses(msgs[j].dt)}}
    IN  CHOOSE d \in dates : \A e \in dates : e <= d

\* (now - last_email_date).days
AgeDays(clock, last) == (clock - last) \div HalfDaysPerDay

\* the order of the keys x.get('dt', ''): the empty string first, dates by
\* time, a text in letters after every date
DtKey(dt) ==
    IF dt.kind = "missing" THEN 0
    ELSE IF dt.kind = "iso" THEN 1 + dt.t
    ELSE 1000000

\* list.sort(key=...): stable, ascending
RECURSIVE InsertByKey(_, _)
InsertByKey(sorted, msg) ==
    IF sorted = <<>> THEN <<msg>>
    ELSE IF DtKey(Head(sorted).dt) <= DtKey(msg.dt)
         THEN <<Head(sorted)>> \o InsertByKey(Tail(sorted), msg)
         ELSE <<msg>> \o sorted

RECURSIVE SortByDt(_)
SortByDt(msgs) ==
    IF msgs = <<>> THEN <<>>
    ELSE InsertByKey(SortByDt(SubSeq(msgs, 1, Len(msgs) - 1)), msgs[Len(msgs)])

\* the participant count taken over sender names
Participants_ByName(msgs) ==
    UNION {{msgs[i].f.list[k][1] :
              k \in {j \in 1..Len(msgs[i].f.list) : Len(msgs[i].f.list[j]) > 1}} :
             i \in 1..Len(msgs)}

\* the set participants: the second element of every sender that has one
Participants(msgs) ==
    UNION {{msgs[i].f.list[k][2] :
              k \in {j \in 1..Len(msgs[i].f.list) : Len(msgs[i].f.list[j]) > 1}} :
             i \in 1..Len(msgs)}

\* the loop over m.get('f', []) meets None
ParticipantsRaises(msgs) == \E i \in 1..Len(msgs) : msgs[i].f.kind = "null"

\* self.min_msg_count <= count <= self.max_msg_count
SizeOk(st, count) == st.min_msg_count <= count /\ count <= st.max_msg_count

\* the age test with < in place of the first <=
AgeOk_ExclusiveMin(st, age) == st.min_age_days < age /\ age <= st.max_age_days

\* self.min_age_days <= age <= self.max_age_days
AgeOk(st, age) == st.min_age_days <= age /\ age <= st.max_age_days

HasDate(msgs) == \E i \in 1..Len(msgs) : Parses(msgs[i].dt)

\* the sort compares None with another key
SortRaises(msgs) ==
    Len(msgs) >= 2 /\ \E i \in 1..Len(msgs) : msgs[i].dt.kind = "null"

\* the record of a group with only its dated messages counted
ThreadRecord_CountDated(t_id, msgs, clock) ==
    LET last_email_date == LastDate(msgs)
        sorted == SortByDt(msgs)
    IN  [thread_id |-> t_id,
         subject |-> IF sorted[1].s = "" THEN "(No Subject)" ELSE sorted[1].s,
         count |-> Len(SelectSeq(msgs, LAMBDA m : Parses(m.dt))),
         last_activity |-> last_email_date \div HalfDaysPerDay,
         participants |-> Cardinality(Participants(msgs)),
         age_days |-> AgeDays(clock, last_email_date),
         blob |-> sorted[1].blob,
         root_mid |-> sorted[1].m]

\* the dict appended to valid_threads for a group
ThreadRecord(t_id, msgs, clock) ==
    LET last_email_date == LastDate(msgs)
        sorted == SortByDt(msgs)
    IN  [thread_id |-> t_id,
         subject |-> IF sorted[1].s = "" THEN "(No Subject)" ELSE sorted[1].s,
         count |-> Len(msgs),
         last_activity |-> last_email_date \div HalfDaysPerDay,
         participants |-> Cardinality(Participants(msgs)),
         age_days |-> AgeDays(clock, last_email_date),
         blob |-> sorted[1].blob,
         root_mid |-> sorted[1].m]

\* whether the second loop reaches the age test for the group
Counted(st, msgs) == SizeOk(st, Len(msgs)) /\ HasDate(msgs)

\* whether the second loop appends a record for the group
Retained(st, msgs, clock) ==
    /\ SizeOk(st, Len(msgs))
    /\ HasDate(msgs)
    /\ AgeOk(st, AgeDays(clock, LastDate(msgs)))

NoAnalysis == [raised |-> FALSE, list |-> <<>>]

\* the second loop, over the groups in insertion order
RECURSIVE ScanThreads(_, _, _, _, _)
ScanThreads(order, msgs, st, clock, acc) ==
    IF order = <<>> THEN [raised |-> FALSE, list |-> acc]
    ELSE LET t_id == Head(order)
             group == ThreadMsgs(msgs, t_id)
         IN  IF ~Counted(st, group)
             THEN ScanThreads(Tail(order), msgs, st, clock, acc)
             ELSE IF ParticipantsRaises(group)
             THEN [raised |-> TRUE, list |-> <<>>]
             ELSE IF ~Retained(st, group, clock)
             THEN ScanThreads(Tail(order), msgs, st, clock, acc)
             ELSE IF SortRaises(group)
             THEN [raised |-> TRUE, list |-> <<>>]
             ELSE ScanThreads(Tail(order), msgs, st, clock,
                              Append(acc, ThreadRecord(t_id, group, clock)))

analyze_threads(msgs, st, clock) ==
    ScanThreads(ThreadOrder(msgs, {}), msgs, st, clock, <<>>)

IdxInit ==
    /\ \E sc \in Scenarios : store = sc[1] /\ now = sc[2]
    /\ messages = <<>>
    /\ ipc = "input"
    /\ valid_threads = NoAnalysis
    /\ summarizable_threads = <<>>

\* the indexer when no call is modelled
IdxIdle ==
    /\ store = DefaultStore
    /\ now = 0
    /\ messages = <<>>
    /\ ipc = "idle"
    /\ valid_threads = NoAnalysis
    /\ summarizable_threads = <<>>

notIdx == <<procVars, tuiVars, twinVars, leaving, previewVars, mainVars, edVars>>

\* the query result grows by one record
AddMessage(msg) ==
    /\ UNCHANGED notIdx
    /\ ipc = "input"
    /\ Len(messages) < MaxMsgs
    /\ messages' = Append(messages, msg)
    /\ UNCHANGED <<store, now, ipc, valid_threads, summarizable_threads>>

\* the sort of main with < in place of <=: threads of equal age change places
RECURSIVE InsertByAge_Unstable(_, _)
InsertByAge_Unstable(sorted, t) ==
    IF sorted = <<>> THEN <<t>>
    ELSE IF Head(sorted).age_days < t.age_days
         THEN <<Head(sorted)>> \o InsertByAge_Unstable(Tail(sorted), t)
         ELSE <<t>> \o sorted

\* list.sort(key=lambda x: x['age_days']): stable, ascending
RECURSIVE InsertByAge(_, _)
InsertByAge(sorted, t) ==
    IF sorted = <<>> THEN <<t>>
    ELSE IF Head(sorted).age_days <= t.age_days
         THEN <<Head(sorted)>> \o InsertByAge(Tail(sorted), t)
         ELSE <<t>> \o sorted

RECURSIVE SortByAge(_)
SortByAge(list) ==
    IF list = <<>> THEN <<>>
    ELSE InsertByAge(SortByAge(SubSeq(list, 1, Len(list) - 1)), list[Len(list)])

\* main: store.analyze_threads(messages), then the sort of what it returned
Analyze ==
    /\ UNCHANGED notIdx
    /\ ipc = "input"
    /\ valid_threads' = analyze_threads(messages, store, now)
    /\ summarizable_threads' = SortByAge(valid_threads'.list)
    /\ ipc' = "done"
    /\ UNCHANGED <<messages, store, now>>

\* ------------------------------------------------------------------------
\* Reading a resume document the way its user does
\* ------------------------------------------------------------------------
\* the lines of the entries, in document order
EntryText(file) ==
    SelectSeq(file.lines, LAMBDA l : l.k \in {"subject", "file", "mid", "notes"})

\* the root message ids of the entries, as written, in document order
MidsWritten(file) ==
    LET mids == SelectSeq(file.lines, LAMBDA l : l.k = "mid")
    IN  [i \in 1..Len(mids) |-> mids[i].t]

NoDuplicates(s) == \A i, j \in 1..Len(s) : i # j => s[i] # s[j]

\* the entry lines save_index writes for a list of threads
RECURSIVE EntryTextOf(_)
EntryTextOf(ts) ==
    IF ts = <<>> THEN <<>>
    ELSE Tail(EntryLines(Head(ts))) \o EntryTextOf(Tail(ts))

RootMids(ts) == [i \in 1..Len(ts) |-> ts[i].root_mid]

\* the step of a run that calls save_index
SaveStep == pc = "loop" /\ saveCalls' # saveCalls

\* the threads of the selection whose fetch and export returned, in order
RECURSIVE Exported(_, _)
Exported(mids, oks) ==
    IF mids = <<>> \/ oks = <<>> THEN <<>>
    ELSE (IF Head(oks) /\ ThreadByMid(Threads, Head(mids)) # 0
          THEN <<Threads[ThreadByMid(Threads, Head(mids))]>> ELSE <<>>)
         \o Exported(Tail(mids), Tail(oks))

\* ------------------------------------------------------------------------
\* Claims
\* ------------------------------------------------------------------------

\* C2: calling save_index a second time with the same edition, the same
\* exported threads and the same existing index leaves the document as the
\* first call wrote it (the second call adds no entry).
C2_SecondSaveAddsNothing ==
    (pc = "returned" /\ saveCalls # <<>>) =>
        /\ save_index(files[edition], edition, processed_threads,
                      existing_index, today) = files[edition]
        /\ NoDuplicates(MidsWritten(files[edition]))

\* C3: every write of a run keeps the entries that earlier runs recorded for
\* the edition and leaves no root message id in more than one entry.
C3_RunsMergeIntoDocument ==
    [][\A e \in Editions :
          (SaveStep /\ files'[e] # files[e]) =>
              /\ IsPrefix(EntryText(files[e]), EntryText(files'[e]))
              /\ NoDuplicates(MidsWritten(files'[e]))]_vars

\* C5 (as stated): when process_selected_threads has returned, every
\* selected id was attempted exactly once, in the order of the selection.
C5_EverySelectedIdAttempted ==
    pc = "returned" => attempts = selected_mids

\* C5 (amended): with a repository path the attempts are at every moment
\* the first idx ids of the selection, whatever the outcomes, and all of
\* them once the call has returned; without one nothing is attempted.
C5_AttemptsFollowSelection ==
    /\ Len(outcomes) = Len(attempts)
    /\ pc \in {"loop", "returned"} =>
          IF repo_path = "none"
          THEN attempts = <<>>
          ELSE /\ attempts = SubSeq(selected_mids, 1, idx)
               /\ pc = "returned" => attempts = selected_mids

\* C5 witness: a call that returned after an export failed before the last
\* selected id, which was attempted all the same.
C5_Witness ==
    /\ pc = "returned"
    /\ Len(selected_mids) >= 2
    /\ attempts = selected_mids
    /\ outcomes[1] = FALSE

\* C6: the threads handed to save_index are exactly the selected threads
\* whose fetch and export returned, and no thread whose export failed
\* enters the done-id set read back from the document.
C6_OnlyExportedThreadsRecorded ==
    [][(pc = "loop" /\ pc' = "returned") =>
          /\ processed_threads = Exported(selected_mids, outcomes)
          /\ saveCalls' # saveCalls =>
                saveCalls'[Len(saveCalls')].threads = Exported(selected_mids, outcomes)
          /\ \A i \in 1..Len(attempts) :
                (/\ ~outcomes[i]
                 /\ attempts[i] \notin load_index(files[edition]).done_mids)
                => attempts[i] \notin load_index(files'[edition]).done_mids]_vars

\* C7 (as stated): every call of process_selected_threads calls save_index
\* exactly once, after the last selected id.
C7_SaveCalledExactlyOnce ==
    pc = "returned" =>
        /\ Len(saveCalls) = 1
        /\ saveCalls[1].at = Len(selected_mids)

\* C7 (amended): save_index is called at most once per call, never before
\* all selected ids have been processed, and exactly once when at least one
\* selected thread was exported, not at all otherwise.
C7_SaveOnceAfterAllExports ==
    /\ Len(saveCalls) <= 1
    /\ saveCalls # <<>> =>
          /\ pc = "returned"
          /\ saveCalls[1].at = Len(selected_mids)
          /\ Len(attempts) = Len(selected_mids)
    /\ pc = "returned" =>
          (Len(saveCalls) = 1 <=> processed_threads # <<>>)

\* C7 witness: a call over two or more ids, one of which failed, that has
\* returned with its single save_index call made.
C7_Witness ==
    /\ pc = "returned"
    /\ Len(selected_mids) >= 2
    /\ FALSE \in Range(outcomes)
    /\ Len(saveCalls) = 1

\* C8: a save_index call keeps the text of all entries of the document,
\* notes included, in their order, and appends the entries of the threads
\* it was given after them, in the given order.
C8_SaveKeepsAndAppends ==
    [][SaveStep =>
          EntryText(files'[edition]) =
              EntryText(files[edition]) \o EntryTextOf(processed_threads)]_vars

\* C9: every write of the document of an edition leaves its created date
\* equal to the date of the first write for that edition.
C9_CreatedFixedAtFirstWrite ==
    [][SaveStep => load_index(files'[edition]).created = firstCreated'[edition]]_vars

\* C10: load_index of the document save_index has just written returns the
\* done ids of the document before united with the root ids of the saved
\* threads, the edition and created date written, and the ids in the order
\* written.
C10_LoadAfterSaveRoundTrip ==
    [][SaveStep =>
          LET before == load_index(files[edition])
              after == load_index(files'[edition])
          IN  /\ after.done_mids = before.done_mids \cup Range(RootMids(processed_threads))
              /\ after.edition = edition
              /\ after.created = files'[edition].lines[3].n
              /\ MidsWritten(files'[edition]) =
                    MidsWritten(files[edition]) \o RootMids(processed_threads)]_vars


\* the root message ids of the rows whose selection bit is set, by
\* ascending row
SelectionInListOrder ==
    LET order == Ascending({i \in 1..Len(threads) : selected[i]})
    IN  [k \in 1..Len(order) |-> threads[order[k]].root_mid]

C4_WitnessEmpty ==
    /\ tpc = "done"
    /\ Len(threads) = 3
    /\ result = Returned(<<>>)

\* the thread ids of the groups of the argument
GroupIds == {ThreadId(messages[i]) : i \in 1..Len(messages)} \ {""}

Emitted(t) == \E k \in 1..Len(valid_threads.list) : valid_threads.list[k].thread_id = t

\* the whole days in a span of half days: the a with a days <= span < a + 1 days
WholeDays(span) ==
    CHOOSE a \in -1..span :
        a * HalfDaysPerDay <= span /\ span < (a + 1) * HalfDaysPerDay

\* the times of the records of group t whose timestamp is a date
GroupTimes(t) ==
    {messages[i].dt.t : i \in {j \in 1..Len(messages) :
                                 ThreadId(messages[j]) = t /\ messages[j].dt.kind = "iso"}}

GroupSize(t) == Cardinality({i \in 1..Len(messages) : ThreadId(messages[i]) = t})

\* C1: a group is emitted exactly when its size lies in
\* [min_msg_count, max_msg_count], one of its timestamps parses and the whole
\* days from its latest timestamp to now lie in [min_age_days, max_age_days];
\* every emitted thread is within both bounds, and under 5/40/21/90 a group
\* of 4 messages or of age 20 is dropped.
C1_EmittedIffWithinBounds ==
    (ipc = "done" /\ ~valid_threads.raised) =>
        /\ \A t \in GroupIds :
              Emitted(t) <=>
                  /\ store.min_msg_count <= GroupSize(t)
                  /\ GroupSize(t) <= store.max_msg_count
                  /\ GroupTimes(t) # {}
                  /\ \E latest \in GroupTimes(t) :
                        /\ \A d \in GroupTimes(t) : d <= latest
                        /\ store.min_age_days <= WholeDays(now - latest)
                        /\ WholeDays(now - latest) <= store.max_age_days
        /\ \A k \in 1..Len(valid_threads.list) :
              LET r == valid_threads.list[k]
              IN  /\ r.thread_id \in GroupIds
                  /\ r.count = GroupSize(r.thread_id)
                  /\ store.min_msg_count <= r.count /\ r.count <= store.max_msg_count
                  /\ store.min_age_days <= r.age_days /\ r.age_days <= store.max_age_days
                  /\ store = DefaultStore => r.count # 4 /\ r.age_days # 20

\* C1 witness: under 5/40/21/90 a group of exactly 5 messages aged exactly
\* 21 days was emitted.
C1_Witness ==
    /\ ipc = "done"
    /\ store = DefaultStore
    /\ \E k \in 1..Len(valid_threads.list) :
          valid_threads.list[k].count = 5 /\ valid_threads.list[k].age_days = 21

\* whether load_index finds the metadata block of a document and an edition
\* in it
MetadataParses(file) == load_index(file).edition # None

\* C11: a run that finds a resume document whose metadata block cannot be
\* parsed does not overwrite it: the save_index call of the run leaves the
\* document as it was, so every recorded entry is still there.
C11_UnparsedDocumentNotOverwritten ==
    [][(SaveStep /\ files[edition].exists /\ ~MetadataParses(files[edition])) =>
          /\ files'[edition] = files[edition]
          /\ \A i \in 1..Len(EntryText(files[edition])) :
                \E j \in 1..Len(EntryText(files'[edition])) :
                    EntryText(files'[edition])[j] = EntryText(files[edition])[i]]_vars

\* C12: in a run of main for an edition, every candidate thread whose root
\* message id is recorded in the resume document of that edition is shown
\* by the selector with the already-processed marker, selected or not.
C12_RecordedThreadsShownDone ==
    [][(pc = "idle" /\ pc' = "process") =>
          \A i \in 1..NumThreads :
              Threads[i].root_mid \in Range(MidsWritten(files[edition'])) =>
                  \A b \in BOOLEAN : Marker(tui_done_mids', Threads[i], b) = "[D]"]_vars

\* the first element of the reference list of message i, its own message id
\* when the list is empty
RootRef(i) ==
    IF messages[i].refs # <<>> THEN messages[i].refs[1] ELSE messages[i].m

\* the positions of the messages whose thread id is t
MembersOf(t) == {i \in 1..Len(messages) : RootRef(i) = t}

\* C13: every record analyze_threads returns stands for the group of the
\* messages whose first reference (own message id when there is none) is
\* its thread id: its count is the number of those messages, no two records
\* have the same thread id, and so no message is counted in two records.
C13_OneRecordPerRootReference ==
    (ipc = "done" /\ ~valid_threads.raised) =>
        \A k \in 1..Len(valid_threads.list) :
            LET r == valid_threads.list[k]
            IN  /\ r.thread_id # ""
                /\ r.count = Cardinality(MembersOf(r.thread_id))
                /\ \A k2 \in 1..Len(valid_threads.list) :
                      k2 # k => /\ valid_threads.list[k2].thread_id # r.thread_id
                                /\ MembersOf(valid_threads.list[k2].thread_id)
                                      \cap MembersOf(r.thread_id) = {}

\* C13 witness: three messages that all name the same root reference, one of
\* them after a second reference, gave one record with count 3.
C13_Witness ==
    /\ ipc = "done"
    /\ Len(messages) = 3
    /\ \A i \in 1..3 : messages[i].refs # <<>> /\ messages[i].refs[1] = "r"
    /\ \E i \in 1..3 : Len(messages[i].refs) = 2
    /\ Len(valid_threads.list) = 1
    /\ valid_threads.list[1].thread_id = "r"
    /\ valid_threads.list[1].count = 3

\* the senders (name, address) of the messages of the group with thread id t
SendersOf(t) ==
    UNION {Range(messages[i].f.list) : i \in MembersOf(t)}

\* the distinct sender addresses of the group with thread id t
AddressesOf(t) == {sender[2] : sender \in {x \in SendersOf(t) : Len(x) >= 2}}

\* the distinct sender names of the group with thread id t
NamesOf(t) == {sender[1] : sender \in {x \in SendersOf(t) : Len(x) >= 2}}

\* C14: the participant count of every record is the number of distinct
\* sender addresses over the messages of its group, whatever the names of
\* the senders.
C14_ParticipantsCountAddresses ==
    (ipc = "done" /\ ~valid_threads.raised) =>
        \A k \in 1..Len(valid_threads.list) :
            valid_threads.list[k].participants =
                Cardinality(AddressesOf(valid_threads.list[k].thread_id))

\* C14 witness: a record was returned for a group whose two senders have the
\* same name and different addresses, and its participant count is two.
C14_Witness ==
    /\ ipc = "done"
    /\ \E k \in 1..Len(valid_threads.list) :
          LET t == valid_threads.list[k].thread_id
          IN  /\ Cardinality(NamesOf(t)) = 1
              /\ Cardinality(AddressesOf(t)) = 2
              /\ valid_threads.list[k].participants = 2

\* C14 second case: one address under a name and without one counts once.
C14_WitnessSameAddress ==
    /\ ipc = "done"
    /\ \E k \in 1..Len(valid_threads.list) :
          LET t == valid_threads.list[k].thread_id
          IN  /\ Cardinality(NamesOf(t)) = 2
              /\ "" \in NamesOf(t)
              /\ Cardinality(AddressesOf(t)) = 1
              /\ valid_threads.list[k].participants = 1

\* the positions of the messages of group t whose timestamp is a date
DatedMembersOf(t) == {i \in MembersOf(t) : messages[i].dt.kind = "iso"}

\* the first message, in input order, among those of group t with the
\* earliest date
EarliestOf(t) ==
    CHOOSE i \in DatedMembersOf(t) :
        \A j \in DatedMembersOf(t) :
            \/ messages[i].dt.t < messages[j].dt.t
            \/ messages[i].dt.t = messages[j].dt.t /\ i <= j

\* C15: the subject and the content locator of every record are those of the
\* message of its group with the earliest date, the first in input order
\* among several with that date; messages whose timestamp is no date do not
\* supply them.
C15_SubjectOfEarliestDated ==
    (ipc = "done" /\ ~valid_threads.raised) =>
        \A k \in 1..Len(valid_threads.list) :
            LET r == valid_threads.list[k]
                first == messages[EarliestOf(r.thread_id)]
            IN  r.subject = first.s /\ r.blob = first.blob

\* C16: analyze_threads completes and returns a list for every list of
\* records, whichever of their fields are missing or null and whichever
\* records are empty.
C16_AnalyzeNeverRaises ==
    ipc = "done" => ~valid_threads.raised

\* the latest date among the messages of group t
LatestOf(t) ==
    CHOOSE d \in GroupTimes(t) : \A e \in GroupTimes(t) : e <= d

\* C17: records whose timestamp is no date count in the message count of
\* their group and in the size test, and play no part in the last-activity
\* day and the age, which come from the latest date of the group; a group
\* without any date is not emitted, whatever its size.
C17_UndatedCountedNotAged ==
    (ipc = "done" /\ ~valid_threads.raised) =>
        /\ \A t \in GroupIds :
              \/ DatedMembersOf(t) = {}
              \/ Cardinality(MembersOf(t)) < store.min_msg_count
              \/ Cardinality(MembersOf(t)) > store.max_msg_count
              => ~Emitted(t)
        /\ \A k \in 1..Len(valid_threads.list) :
              LET r == valid_threads.list[k]
              IN  /\ r.count = Cardinality(MembersOf(r.thread_id))
                  /\ r.last_activity = LatestOf(r.thread_id) \div HalfDaysPerDay
                  /\ r.age_days = WholeDays(now - LatestOf(r.thread_id))

\* C17 witness: a record was returned for a group with a message that has no
\* date, with that message in its count, while another group of admitted
\* size without any date was dropped.
C17_Witness ==
    /\ ipc = "done"
    /\ \E k \in 1..Len(valid_threads.list) :
          LET t == valid_threads.list[k].thread_id
          IN  /\ MembersOf(t) \ DatedMembersOf(t) # {}
              /\ valid_threads.list[k].count = Cardinality(MembersOf(t))
              /\ Cardinality(DatedMembersOf(t)) < store.min_msg_count
    /\ \E t \in GroupIds :
          /\ DatedMembersOf(t) = {}
          /\ store.min_msg_count <= Cardinality(MembersOf(t))
          /\ Cardinality(MembersOf(t)) <= store.max_msg_count
          /\ ~Emitted(t)

\* the position in what analyze_threads returned of the record with thread
\* id t
EmittedAt(t) ==
    CHOOSE k \in 1..Len(valid_threads.list) : valid_threads.list[k].thread_id = t

\* C18: the list main hands to the selector holds the records that
\* analyze_threads returned, in ascending order of age_days, records of
\* equal age in the order in which they were returned.
C18_ListAscendingByAge ==
    (ipc = "done" /\ ~valid_threads.raised) =>
        /\ Len(summarizable_threads) = Len(valid_threads.list)
        /\ Range(summarizable_threads) = Range(valid_threads.list)
        /\ \A i, j \in 1..Len(summarizable_threads) :
              i < j =>
                  /\ summarizable_threads[i].age_days <= summarizable_threads[j].age_days
                  /\ summarizable_threads[i].age_days = summarizable_threads[j].age_days
                        => EmittedAt(summarizable_threads[i].thread_id)
                              < EmittedAt(summarizable_threads[j].thread_id)

\* C18 witness: analyze_threads returned an older thread before a younger
\* one, and the list handed on has the younger one first.
C18_Witness ==
    /\ ipc = "done"
    /\ Len(valid_threads.list) = 2
    /\ valid_threads.list[1].age_days > valid_threads.list[2].age_days
    /\ summarizable_threads = <<valid_threads.list[2], valid_threads.list[1]>>

\* C18 second case: two threads of equal age stay in the order returned.
C18_WitnessEqualAge ==
    /\ ipc = "done"
    /\ Len(valid_threads.list) = 2
    /\ valid_threads.list[1].age_days = valid_threads.list[2].age_days
    /\ summarizable_threads = valid_threads.list

CursorInRange == threads # <<>> => 0 <= cursor /\ cursor < Len(threads)

\* C19: in a session over at least one thread the cursor is always an index
\* of the thread list; the up key on the first row and the down key on the
\* last row leave it where it is, and Enter in Searching mode and n and p in
\* Browsing mode move it to an index of the list.
C19_CursorStaysInList ==
    /\ []CursorInRange
    /\ [][\A key \in Keys :
            (HandleKey(key) /\ threads # <<>>) =>
                /\ (~searching /\ key \in {"KEY_UP", "k"} /\ cursor = 0) => cursor' = 0
                /\ (~searching /\ key \in {"KEY_DOWN", "j"} /\ cursor = Len(threads) - 1)
                      => cursor' = cursor
                /\ ((searching /\ key = "ENTER") \/ (~searching /\ key \in {"n", "p"}))
                      => (0 <= cursor' /\ cursor' < Len(threads))]_vars

\* C19 witness: in a session over three threads a search jump has put the
\* cursor on the last row.
C19_Witness ==
    /\ tpc = "render"
    /\ Len(threads) = 3
    /\ ~searching
    /\ search_matches # <<>>
    /\ current_match_idx >= 0
    /\ PyAt(search_matches, current_match_idx) = 2
    /\ cursor = 2

\* three presses of the space key on the rows a, b, c of a bitmap
Toggle3(sel, a, b, c) == Toggle(Toggle(Toggle(sel, a), b), c)

\* C20: the space key in Browsing mode flips the selection bit of the row
\* under the cursor and leaves every other bit, the cursor and the search
\* state as they are; so from every bitmap of a session, toggling rows A, B,
\* A gives the bitmap that toggling B, A, A gives, the one with only the bit
\* of B flipped.
C20_SpaceFlipsOneBit ==
    /\ [][(HandleKey(" ") /\ ~searching) =>
             /\ Len(selected') = Len(selected)
             /\ selected'[cursor + 1] = ~selected[cursor + 1]
             /\ \A i \in 1..Len(selected) : i # cursor + 1 => selected'[i] = selected[i]
             /\ UNCHANGED <<cursor, searching, search_term, search_matches,
                            current_match_idx>>]_vars
    /\ [](\A a, b \in 0..(Len(selected) - 1) :
             /\ Toggle3(selected, a, b, a) = Toggle3(selected, b, a, a)
             /\ \A i \in 1..Len(selected) :
                   Toggle3(selected, a, b, a)[i] = (selected[i] # (i = b + 1)))

\* C20 witness: in a session over three threads the space key has selected
\* the middle row only, and the cursor is still on it.
C20_Witness ==
    /\ tpc = "render"
    /\ Len(threads) = 3
    /\ selected = <<FALSE, TRUE, FALSE>>
    /\ cursor = 1

AllSet(sel) == \A i \in 1..Len(sel) : sel[i]
AllClear(sel) == \A i \in 1..Len(sel) : ~sel[i]

\* C21: the select-all key in Browsing mode leaves one bit per thread; all
\* bits are clear after it when all were set before, and all are set after
\* it otherwise, also when only some were set; pressed twice on an all-clear
\* or an all-set bitmap it gives that bitmap back.
C21_SelectAllSetsOrClears ==
    /\ [][(HandleKey("a") /\ ~searching) =>
             /\ Len(selected') = Len(threads)
             /\ AllSet(selected) => AllClear(selected')
             /\ ~AllSet(selected) => AllSet(selected')
             /\ UNCHANGED <<cursor, searching, search_term, search_matches,
                            current_match_idx>>]_vars
    /\ []((threads # <<>> /\ (AllSet(selected) \/ AllClear(selected))) =>
             SelectAll(SelectAll(selected, Len(threads)), Len(threads)) = selected)

\* C21 witness: in a session over three threads, with the cursor still on
\* the first row, all three bits are set: the select-all key was pressed.
C21_Witness ==
    /\ tpc = "render"
    /\ Len(threads) = 3
    /\ cursor = 0
    /\ AllSet(selected)

\* the indices (from 0) of the threads whose subject holds the search term,
\* letters compared without regard to case
TermIndices ==
    {i \in 0..(Len(threads) - 1) :
        \E at \in 1..Len(threads[i + 1].subject) :
            /\ at + Len(search_term) - 1 <= Len(threads[i + 1].subject)
            /\ \A j \in 1..Len(search_term) :
                  LowerChar(threads[i + 1].subject[at + j - 1]) = LowerChar(search_term[j])}

MatchesOfTerm ==
    /\ search_term = <<>> => search_matches = <<>>
    /\ search_term # <<>> => Range(search_matches) = TermIndices
    /\ Len(search_matches) = Cardinality(Range(search_matches))
    /\ \A i, j \in 1..Len(search_matches) : i < j => search_matches[i] < search_matches[j]

\* C22: in every state the match list is the ascending list of the indices
\* of the threads whose subject holds the search term without regard to
\* case (as many as there are such subjects), empty for the empty term; a
\* key that changes the term leaves the match pointer at 0 when the list is
\* then non-empty and at -1 otherwise, and '/' and Escape empty the term and
\* the list together.
C22_MatchesFollowTerm ==
    /\ []MatchesOfTerm
    /\ [][/\ search_term' # search_term =>
                current_match_idx' = IF search_matches' # <<>> THEN 0 ELSE -1
          /\ ((HandleKey("/") /\ ~searching) \/ (HandleKey("ESC") /\ searching)) =>
                search_term' = <<>> /\ search_matches' = <<>>]_vars

\* C22 witness: the term q, typed in Searching mode over three threads, has
\* the two matches Qa: n and a-q, and the pointer is on the first.
C22_Witness ==
    /\ searching
    /\ Len(threads) = 3
    /\ search_term = <<"q">>
    /\ search_matches = <<0, 2>>
    /\ current_match_idx = 0

\* C23: Enter in Searching mode ends the mode; with a non-empty match list
\* the cursor goes to the thread the match pointer names, with an empty one
\* it stays; the term, the match list, the match pointer and the selection
\* are kept.
C23_EnterCommitsSearch ==
    [][(HandleKey("ENTER") /\ searching) =>
          /\ ~searching'
          /\ search_matches # <<>> =>
                /\ current_match_idx \in 0..(Len(search_matches) - 1)
                /\ cursor' = search_matches[current_match_idx + 1]
          /\ search_matches = <<>> => cursor' = cursor
          /\ UNCHANGED <<search_term, search_matches, current_match_idx, selected>>
          /\ ~result'.returned]_vars

\* C23 witness: Enter has taken the cursor from the first row to the only
\* match of the term p, the second thread, and the term is still there.
C23_Witness ==
    /\ tpc = "render"
    /\ ~searching
    /\ Len(threads) = 3
    /\ search_term = <<"p">>
    /\ search_matches = <<1>>
    /\ current_match_idx = 0
    /\ cursor = 1
    /\ offset = 0

\* C24: Escape in Searching mode ends the mode, empties the term and the
\* match list and sets the match pointer to -1; the cursor and the selection
\* are as they were.
C24_EscapeCancelsSearch ==
    [][(HandleKey("ESC") /\ searching) =>
          /\ ~searching'
          /\ search_term' = <<>>
          /\ search_matches' = <<>>
          /\ current_match_idx' = -1
          /\ UNCHANGED <<cursor, selected>>
          /\ ~result'.returned]_vars

\* C24 witness: the selector waits for a key in Searching mode with a term
\* that has matches, the cursor on another row than the first match and a
\* row selected: the state in which Escape has something to clear and to
\* keep.
C24_Witness ==
    /\ tpc = "getch"
    /\ searching
    /\ Len(threads) = 3
    /\ search_term # <<>>
    /\ search_matches # <<>>
    /\ current_match_idx = 0
    /\ cursor # search_matches[1]
    /\ \E i \in 1..Len(selected) : selected[i]

\* the match pointer after the key n pressed times times from pointer ptr
\* on a list of k matches
RECURSIVE NextTimes(_, _, _)
NextTimes(ptr, k, times) ==
    IF times = 0 THEN ptr ELSE NextTimes(NextMatchIdx(ptr, k), k, times - 1)

\* the same for the key p
RECURSIVE PrevTimes(_, _, _)
PrevTimes(ptr, k, times) ==
    IF times = 0 THEN ptr ELSE PrevTimes(PrevMatchIdx(ptr, k), k, times - 1)

\* C25: in Browsing mode with k >= 1 matches the key n moves the match
\* pointer one forward and the key p one back, modulo k, and puts the cursor
\* on the thread of that match; p after n and n after p give the pointer
\* back, and k times n or k times p from match 0 end on match 0; with no
\* match the two keys change neither pointer nor cursor.
C25_NextPrevCycleMatches ==
    /\ [][\A key \in {"n", "p"} :
            (HandleKey(key) /\ ~searching) =>
                LET k == Len(search_matches)
                IN  /\ k >= 1 =>
                          /\ current_match_idx' =
                                (current_match_idx + (IF key = "n" THEN 1 ELSE k - 1)) % k
                          /\ cursor' = search_matches[current_match_idx' + 1]
                    /\ k = 0 => UNCHANGED <<current_match_idx, cursor>>
                    /\ UNCHANGED <<searching, search_term, search_matches>>]_vars
    /\ [](search_matches # <<>> =>
             LET k == Len(search_matches)
             IN  /\ NextTimes(0, k, k) = 0
                 /\ PrevTimes(0, k, k) = 0
                 /\ \A i \in 0..(k - 1) :
                       /\ PrevMatchIdx(NextMatchIdx(i, k), k) = i
                       /\ NextMatchIdx(PrevMatchIdx(i, k), k) = i)

\* C25 witness: after a search for q was committed over three threads, the
\* pointer is on the second of the two matches and the cursor on its thread,
\* the third: n (or p) was pressed in Browsing mode.
C25_Witness ==
    /\ tpc = "render"
    /\ ~searching
    /\ search_term = <<"q">>
    /\ search_matches = <<0, 2>>
    /\ current_match_idx = 1
    /\ cursor = 2

\* C26: in Searching mode with a non-empty match list the key n moves the
\* match pointer one forward and the key p one back, modulo the number of
\* matches, the cursor goes to the thread of that match, and the mode is
\* still Searching with the same term.
C26_NextPrevWhileSearching ==
    [][\A key \in {"n", "p"} :
          (HandleKey(key) /\ searching /\ search_matches # <<>>) =>
              LET k == Len(search_matches)
              IN  /\ searching'
                  /\ UNCHANGED <<search_term, search_matches>>
                  /\ current_match_idx' =
                        (current_match_idx + (IF key = "n" THEN 1 ELSE k - 1)) % k
                  /\ cursor' = search_matches[current_match_idx' + 1]]_vars

\* C27: the key pressed while the help overlay waits for one, whichever it
\* is, closes the overlay and does nothing else: the session goes on in
\* Browsing mode, the mode in which the overlay was opened, and the cursor,
\* the offset, the selection, the term, the match list and the match pointer
\* are as before.
C27_HelpKeyOnlyClosesOverlay ==
    [][\A key \in Keys :
          HelpKey(key) =>
              /\ show_help_overlay /\ ~show_help_overlay'
              /\ ~searching /\ ~searching'
              /\ ~result'.returned /\ tpc' # "done"
              /\ UNCHANGED <<cursor, offset, selected, search_term, search_matches,
                             current_match_idx, show_preview>>]_vars

\* C27 witness: the help overlay is open and waits for a key in a session
\* with the cursor off the first row, a selected row and the matches of a
\* committed search.
C27_Witness ==
    /\ tpc = "help"
    /\ show_help_overlay
    /\ cursor > 0
    /\ \E i \in 1..Len(selected) : selected[i]
    /\ search_matches # <<>>

\* C28: no key handled from the one that enters Searching mode to the one
\* that leaves it, Space among them, changes a selection bit, and neither do
\* the keys n and p in Browsing mode.
C28_SearchKeepsSelection ==
    [][/\ (searching \/ searching') => selected' = selected
       /\ \A key \in {"n", "p"} : (HandleKey(key) /\ ~searching) => selected' = selected]_vars

\* C28 witness: in Searching mode, with the first of three rows selected, a
\* space was typed: it is the search term, and the selection is as it was.
C28_Witness ==
    /\ tpc = "render"
    /\ searching
    /\ search_term = <<" ">>
    /\ selected = <<TRUE, FALSE, FALSE>>
    /\ cursor = 0

\* C29: the done-id set is informational only. Two sessions over the same
\* thread list and screen that differ only in done_mids and read the same
\* keys are, after every step, at the same position of run with the same
\* cursor, offset, selection, mode (searching, help overlay, preview) and
\* search state (term, match list, match pointer), and return the same list;
\* a session that has returned through the quit key has returned every
\* selected thread, the ones in its done_mids included.
C29_DoneSetInformational ==
    /\ threads2 = threads /\ rows2 = rows /\ done_mids2 # done_mids
    /\ tpc2 = tpc
    /\ cursor2 = cursor
    /\ offset2 = offset
    /\ selected2 = selected
    /\ searching2 = searching
    /\ show_help_overlay2 = show_help_overlay
    /\ show_preview2 = show_preview
    /\ search_term2 = search_term
    /\ search_matches2 = search_matches
    /\ current_match_idx2 = current_match_idx
    /\ result2 = result
    /\ (tpc = "done" /\ threads # <<>>) =>
          \A i \in 1..Len(threads) :
             selected[i] => \E j \in 1..Len(result.mids) :
                               result.mids[j] = threads[i].root_mid

\* the sessions differ in their done sets, the first row is marked done in
\* the first session and not in the second, the operator selected it with
\* one more row, and both sessions returned it on Quit
C29_Witness ==
    /\ tpc = "done" /\ tpc2 = "done"
    /\ selected = <<TRUE, FALSE, TRUE>>
    /\ threads[1].root_mid \in done_mids
    /\ threads2[1].root_mid \notin done_mids2
    /\ result.returned /\ result.mids # <<>>
    /\ result.mids[1] = threads[1].root_mid
    /\ result2 = result

\* the same with the first row marked done in the second session only
C29_WitnessSecondDone ==
    /\ tpc = "done" /\ tpc2 = "done"
    /\ selected2 = <<TRUE, FALSE, FALSE>>
    /\ threads[1].root_mid \notin done_mids
    /\ threads2[1].root_mid \in done_mids2
    /\ result2.returned /\ result2.mids = <<threads2[1].root_mid>>

InLoop == tpc \in {"render", "help", "getch"}

C30_WitnessLeavingSearch ==
    /\ leaving /\ tpc = "getch" /\ searching /\ Len(search_term) = MaxTerm

\* the operator started to leave while the help overlay was open
C30_WitnessLeavingHelp ==
    /\ leaving /\ tpc = "help"

\* the fetch of the last render did not get the blob: git show timed out,
\* could not be started or ended with an error status, or no repository
\* path is known
FetchFailed(p) == p.how \in {"timeout", "nogit", "exit", "norepo"}

C31_WitnessNoRepo ==
    /\ tpc = "getch" /\ preview.how = "norepo" /\ selected = <<FALSE, TRUE>>

\* git show ended with an error status
C31_WitnessExitStatus ==
    /\ tpc = "getch" /\ preview.how = "exit" /\ selected = <<FALSE, TRUE>>

\* the files of the resume store as they are before the first run
NoRunYet ==
    /\ \A e \in Editions : files[e] = NoFile
    /\ attempts = <<>>
    /\ saveCalls = <<>>
    /\ processed_threads = <<>>
    /\ runs = 0 /\ pc = "idle"

\* C32: when lei is not found or lei q ends with an error status, the program
\* has ended with exit status 1, no selector was built (no render, no key
\* read), no thread was exported and no resume document was written.
C32_NoSelectorWithoutCandidates ==
    cause \in {"nolei", "failed"} =>
        /\ mpc = "exited" /\ exit_status = 1
        /\ tpc = "idle" /\ threads = <<>> /\ result = NoResult
        /\ NoRunYet

\* lei was not found
C32_Witness ==
    /\ mpc = "exited" /\ cause = "nolei" /\ exit_status = 1

\* lei q ended with an error status
C32_WitnessQueryFailed ==
    /\ mpc = "exited" /\ cause = "failed" /\ exit_status = 1

\* the other runs do start the selector, export and write
C32_WitnessSelectorRuns ==
    /\ mpc = "exited" /\ cause = "messages" /\ exit_status = 0
    /\ tpc = "done" /\ files[1] # NoFile

\* C33 as claimed: after a malformed or an empty result of lei q the program
\* has ended normally (exit status 0) without building the selector and
\* without exporting anything.
C33_MalformedOrEmptyEndsNormally ==
    cause \in {"malformed", "empty"} =>
        /\ mpc = "exited" /\ exit_status = 0
        /\ tpc = "idle" /\ threads = <<>> /\ result = NoResult
        /\ NoRunYet

\* C33 amended: after an empty result of lei q the program has ended
\* normally (exit status 0); after a result that is not JSON it has ended
\* with exit status 1; in both cases no selector was built and nothing was
\* exported or written.
C33_EmptyEndsNormallyMalformedIsFatal ==
    /\ cause = "empty" => mpc = "exited" /\ exit_status = 0
    /\ cause = "malformed" => mpc = "exited" /\ exit_status = 1
    /\ cause \in {"empty", "malformed"} =>
          /\ tpc = "idle" /\ threads = <<>> /\ result = NoResult
          /\ NoRunYet

\* lei q printed nothing or an empty list
C33_Witness ==
    /\ mpc = "exited" /\ cause = "empty" /\ exit_status = 0

\* lei q printed text that is not JSON
C33_WitnessMalformed ==
    /\ mpc = "exited" /\ cause = "malformed" /\ exit_status = 1

\* the edition of month m of year y, counted from March 2015 = 1
MonthEdition(y, m) == (y - 2015) * 12 + m - 2

\* C34: the default edition of a date is the edition of the date's month when
\* the day of the month is 10 or more and the edition before it when the day
\* is less than 10; a date from 1 to 9 January gets the edition of December
\* of the year before; the edition of March 2015 is 1 and the edition of
\* month m of year y is (y - 2015) * 12 + m - 2.
C34_DefaultEditionOfDate ==
    (epc = "done" /\ args_edition = None) =>
        /\ now_date.day >= 10 =>
              main_edition = MonthEdition(now_date.year, now_date.month)
        /\ now_date.day < 10 =>
              main_edition = MonthEdition(now_date.year, now_date.month) - 1
        /\ (now_date.day < 10 /\ now_date.month = 1) =>
              main_edition = MonthEdition(now_date.year - 1, 12)
        /\ (now_date.day >= 10 /\ now_date.year = 2015 /\ now_date.month = 3) =>
              main_edition = 1

\* 5 January 2016 gets the edition of December 2015
C34_Witness ==
    /\ epc = "done" /\ args_edition = None
    /\ now_date = Date(2016, 1, 5)
    /\ main_edition = 10

\* 10 March 2015 gets edition 1
C34_WitnessEpoch ==
    /\ epc = "done" /\ args_edition = None
    /\ now_date = Date(2015, 3, 10)
    /\ main_edition = 1

\* a step of render that draws the list
ListRender == tpc = "render" /\ ~show_help_overlay /\ tpc' = "getch"

\* C35: after every render of the list with at least one visible row,
\* offset <= cursor < offset + visible_rows; render sets the offset to the
\* cursor when the cursor is above it, to cursor - visible_rows + 1 when the
\* cursor is past the last visible row, and leaves it otherwise; no key
\* handler changes the offset.
C35_RenderKeepsCursorVisible ==
    [][ /\ (ListRender /\ rows - 4 >= 1) =>
              /\ offset' <= cursor'
              /\ cursor' < offset' + (rows' - 4)
        /\ ListRender =>
              offset' = IF offset > cursor THEN cursor
                        ELSE IF cursor >= offset + (rows - 4)
                             THEN cursor - (rows - 4) + 1
                             ELSE offset
        /\ tpc \in {"getch", "help"} => offset' = offset
      ]_vars

\* the list was scrolled down: the cursor is on the last visible row
C35_Witness ==
    /\ tpc = "getch"
    /\ rows = 6
    /\ offset = 1
    /\ cursor = 2

\* the list was scrolled back up: the offset was set to the cursor
C35_WitnessSnappedUp ==
    /\ tpc = "getch"
    /\ rows = 5
    /\ offset = 0
    /\ cursor = 0
    /\ selected = <<FALSE, FALSE, TRUE>>

\* C36: rendering and key handling strictly alternate: the key that run
\* reads for handle_input is read directly after a render of the list, so
\* between two consecutive key reads there is a render of the list, also
\* directly after the help overlay was dismissed.
C36_KeyReadFollowsListRender ==
    [][(tpc' = "getch" /\ tpc # "getch") => ListRender]_vars

\* C37: the toggle-preview key flips the preview flag and nothing else, in
\* Browsing and in Searching mode alike: the mode, the cursor, the selection,
\* the term (the key is not appended to it), the match list and the match
\* pointer are as before and the session goes on; no other step changes the
\* flag, so pressing the key twice restores it.
C37_PreviewKeyFlipsOnlyTheFlag ==
    [][ /\ HandleKey("CTRL_P") =>
              /\ show_preview' = ~show_preview
              /\ ~result'.returned /\ tpc' = "render"
              /\ UNCHANGED <<searching, cursor, offset, selected, search_term,
                             search_matches, current_match_idx, show_help_overlay>>
        /\ (show_preview' # show_preview) => HandleKey("CTRL_P")
      ]_vars

\* the preview was switched off in Searching mode, with a term typed and a
\* match found
C37_Witness ==
    /\ searching
    /\ ~show_preview
    /\ search_term # <<>>
    /\ search_matches # <<>>
    /\ tpc = "render"

\* the preview was switched off in Browsing mode with a row selected
C37_WitnessBrowsing ==
    /\ ~searching
    /\ ~show_preview
    /\ \E i \in 1..Len(selected) : selected[i]
    /\ tpc = "render"

\* the step of render that draws the preview of the thread under the cursor
PreviewRender == tpc = "render" /\ PreviewDrawn

\* the locator of the thread under the cursor
CurrentBlob == threads[cursor + 1].blob

\* C38 as stated: the preview cache is keyed by the content locator and never
\* evicts: once a body is cached for a locator, every later preview of that
\* locator returns the cached lines without running git again.
C38_CachedLocatorIsNeverFetchedAgain ==
    [][ /\ \A k \in DOMAIN preview_cache :
              k \in DOMAIN preview_cache' /\ preview_cache'[k] = preview_cache[k]
        /\ PreviewRender =>
              \A k \in DOMAIN preview_cache :
                  k[1] = CurrentBlob =>
                      preview'.how = "cache" /\ preview'.body = preview_cache[k]
      ]_vars

\* C38 amended: the preview cache is keyed by the content locator together
\* with the number of lines asked for, and never evicts: once a body is
\* cached for a locator and a number of lines, every later preview of that
\* locator with that number of lines returns the cached lines without
\* running git again.
C38_CachedLocatorAndBudgetIsNeverFetchedAgain ==
    [][ /\ \A k \in DOMAIN preview_cache :
              k \in DOMAIN preview_cache' /\ preview_cache'[k] = preview_cache[k]
        /\ PreviewRender =>
              \A k \in DOMAIN preview_cache :
                  k = CacheKey(CurrentBlob, Max(rows - 14, 5)) =>
                      preview'.how = "cache" /\ preview'.body = preview_cache[k]
      ]_vars

\* the cursor is back on the first thread after the second one was
\* previewed, and the preview came from the cache
C38_Witness ==
    /\ tpc = "getch"
    /\ Len(threads) = 2
    /\ cursor = 0
    /\ preview.how = "cache"
    /\ preview.body # <<>>
    /\ \E k \in DOMAIN preview_cache : k[1] = threads[2].blob

\* one locator is cached twice, for the line counts of two screen heights,
\* with different lines
C38_WitnessTwoBudgets ==
    \E k1, k2 \in DOMAIN preview_cache :
        /\ k1[1] = k2[1]
        /\ k1[2] # k2[2]
        /\ preview_cache[k1] # preview_cache[k2]

\* the match pointer is -1 for an empty match list and an index of the list
\* otherwise
PointerConsistent ==
    /\ search_matches = <<>> => current_match_idx = -1
    /\ search_matches # <<>> =>
          0 <= current_match_idx /\ current_match_idx < Len(search_matches)

\* C39: in every state of the selector the match pointer is -1 when the match
\* list is empty and an index of the list when it is not, and every jump of
\* the cursor through the pointer (Enter in Searching mode, n and p in
\* Browsing mode) puts the cursor on the match the pointer then names, read
\* at an index from 0 to the length of the list - 1.
C39_MatchPointerConsistent ==
    /\ [] PointerConsistent
    /\ [][ /\ (HandleKey("ENTER") /\ searching /\ search_matches # <<>>) =>
                 /\ current_match_idx \in 0..(Len(search_matches) - 1)
                 /\ cursor' = search_matches[current_match_idx + 1]
           /\ ((HandleKey("n") \/ HandleKey("p")) /\ ~searching /\ search_matches # <<>>) =>
                 /\ current_match_idx' \in 0..(Len(search_matches) - 1)
                 /\ cursor' = search_matches[current_match_idx' + 1]
         ]_vars

\* the pointer is on the last of two matches and the cursor was moved there
C39_Witness ==
    /\ tpc = "render"
    /\ ~searching
    /\ Len(search_matches) = 2
    /\ current_match_idx = 1
    /\ cursor = search_matches[2]

\* a term without a match was typed: the list is empty and the pointer -1
C39_WitnessNoMatch ==
    /\ searching
    /\ search_term # <<>>
    /\ search_matches = <<>>
    /\ current_match_idx = -1

\* C40: when a call of process_selected_threads has recorded threads in
\* index.md, every thread it recorded was exported by it, and each entry of
\* index.md with the thread's message id names, in its File line, the file
\* that the call wrote for the thread: the sanitized subject and the first 8
\* characters of the locator are the same in both names.
C40_EntryNamesExportedFile ==
    (pc = "returned" /\ saveCalls # <<>>) =>
        LET lines == files[edition].lines
        IN  \A t \in Range(saveCalls[Len(saveCalls)].threads) :
                /\ \E w \in Range(written) : w.mid = t.root_mid
                /\ \A w \in Range(written) :
                      w.mid = t.root_mid =>
                          /\ w.name = sanitize_filename(t.subject) \o <<"_">>
                                         \o BlobPrefix(t.blob) \o <<".txt">>
                          /\ \E i \in 2..Len(lines) :
                                /\ lines[i] = MidLine(t.root_mid)
                                /\ lines[i - 1] = FileLine(w.name)
                          /\ \A i \in 2..Len(lines) :
                                lines[i] = MidLine(t.root_mid) =>
                                    lines[i - 1] = FileLine(w.name)

\* a call exported and recorded the thread whose locator is longer than 8
\* characters and one more thread, and failed to export a third
C40_Witness ==
    /\ pc = "returned"
    /\ saveCalls # <<>>
    /\ Len(written) = 2
    /\ written[1].mid = Threads[1].root_mid
    /\ Len(Threads[1].blob) > BlobPrefixLen
    /\ \E i \in 1..Len(outcomes) : ~outcomes[i]
    /\ \E i \in 2..Len(files[edition].lines) :
          /\ files[edition].lines[i] = MidLine(Threads[1].root_mid)
          /\ files[edition].lines[i - 1] = FileLine(written[1].name)

\* the main flow: runs of main() on the resume documents
Init == ProcInit /\ TuiIdle /\ IdxIdle /\ TwinIdle /\ leaving = FALSE /\ NarrowScreen /\ MainIdle /\ EditionIdle

Next ==
    \/ \E e \in Editions, rp \in {"none", "repo"}, sel \in [1..NumThreads -> BOOLEAN] :
          MainSelect(e, rp, sel)
    \/ ProcessEnter
    \/ \E ok \in BOOLEAN : ExportOne(ok)
    \/ ProcessFinish
    \/ MainEnd
    \/ NextDay
    \/ \E e \in Editions : \E i \in 1..Len(files[e].lines) : OperatorEditsNotes(e, i)
    \/ \E e \in Editions : \E i \in 1..Len(files[e].lines) : OperatorDamagesMetadata(e, i)

Spec == Init /\ [][Next]_vars

\* one session of the selector
InitTui == ProcInit /\ TuiInit /\ IdxIdle /\ TwinIdle /\ leaving = FALSE /\ NarrowScreen /\ MainIdle /\ EditionIdle

NextTui ==
    \/ RunStart
    \/ Render
    \/ \E key \in Keys : HelpKey(key)
    \/ \E key \in Keys : HandleKey(key)

SpecTui == InitTui /\ [][NextTui]_vars

\* one call of analyze_threads on a query result
InitIdx == ProcInit /\ TuiIdle /\ IdxInit /\ TwinIdle /\ leaving = FALSE /\ NarrowScreen /\ MainIdle /\ EditionIdle

NextIdx ==
    \/ \E msg \in MessagePool : AddMessage(msg)
    \/ Analyze

SpecIdx == InitIdx /\ [][NextIdx]_vars

\* two sessions of the selector on the same list and the same keys
InitPair == ProcInit /\ TuiInit /\ IdxIdle /\ TwinInit /\ leaving = FALSE /\ NarrowScreen /\ MainIdle /\ EditionIdle

NextPair ==
    \/ PairRunStart
    \/ PairRender
    \/ \E key \in Keys : PairHelpKey(key)
    \/ \E key \in Keys : PairHandleKey(key)

SpecPair == InitPair /\ [][NextPair]_vars

\* one session of the selector as main builds it, without done_mids, with an
\* operator who at some moment starts to leave; run and render are steps of
\* the program, which take place, and an operator who is leaving goes on
\* pressing keys
InitLeave == InitTui /\ done_mids = {}

NextLeave ==
    \/ RunStart
    \/ Render
    \/ \E key \in Keys : HelpKey(key)
    \/ \E key \in Keys : StayKey(key)
    \/ DecideToLeave
    \/ LeaveStep

FairLeave ==
    /\ WF_vars(RunStart)
    /\ WF_vars(Render)
    /\ WF_vars(leaving /\ \E key \in Keys : HelpKey(key))
    /\ WF_vars(LeaveStep)

SpecLeave == InitLeave /\ [][NextLeave]_vars /\ FairLeave

\* one session of the selector as main builds it, on a screen with room for
\* the preview pane; the operator moves, selects, searches, toggles the
\* preview, opens the help and quits, and the terminal is resized
PreviewKeys == {"KEY_UP", "KEY_DOWN", " ", "CTRL_P", "/", "ESC", "q"}

PreviewThreadCounts == {1, 2}

InitPreview ==
    /\ ProcInit /\ IdxIdle /\ TwinIdle /\ leaving = FALSE /\ WideScreen /\ MainIdle /\ EditionIdle
    /\ \E n \in PreviewThreadCounts : threads = SubSeq(Threads, 1, n)
    /\ selected = [i \in 1..Len(threads) |-> FALSE]
    /\ cursor = 0
    /\ offset = 0
    /\ search_term = <<>>
    /\ search_matches = <<>>
    /\ current_match_idx = -1
    /\ searching = FALSE
    /\ show_help_overlay = FALSE
    /\ show_preview = TRUE
    /\ done_mids = {}
    /\ rows = 6
    /\ tpc = "start"
    /\ result = NoResult

NextPreview ==
    \/ RunStart
    \/ Render
    \/ \E key \in PreviewKeys : HandleKey(key)
    \/ \E h \in {6, TallRows} : Resize(h)

SpecPreview == InitPreview /\ [][NextPreview]_vars

\* one run of the program, from the environment check to its exit
MainKeys == {"KEY_DOWN", " ", "a", "q"}

InitMain ==
    /\ ProcInit /\ TuiIdle /\ IdxIdle /\ TwinIdle /\ leaving = FALSE /\ NarrowScreen /\ EditionIdle
    /\ MainInit

NextMain ==
    \/ \E lei_found \in BOOLEAN : CheckEnvironment(lei_found)
    \/ \E outcome \in QueryOutcomes : GetLeiResults(outcome)
    \/ \E n \in ThreadCounts, h \in RowChoices : OpenSelector(n, h)
    \/ RunStart
    \/ Render
    \/ \E key \in MainKeys : HandleKey(key)
    \/ SelectorReturned
    \/ MainTakesSelection
    \/ ProcessEnter
    \/ \E ok \in BOOLEAN : ExportOne(ok)
    \/ ProcessFinish
    \/ MainEnd
    \/ MainReturns

SpecMain == InitMain /\ [][NextMain]_vars

\* the edition of a run started on any date, with or without --edition
InitEdition ==
    /\ ProcInit /\ TuiIdle /\ IdxIdle /\ TwinIdle /\ leaving = FALSE /\ NarrowScreen
    /\ MainIdle /\ EditionInit

NextEdition == SetEdition

SpecEdition == InitEdition /\ [][NextEdition]_vars

====
